---- MODULE Spec2Model ----
(***************************************************************************)
(* Model of binance-vision-connector: Connector.DownloadTrades             *)
(* (binance-vision-connector/connector.go): one HTTP GET, a size-limited   *)
(* body read, the zip index, one goroutine per selected CSV member, the    *)
(* append to the shared result under sync.Mutex, the join on the           *)
(* sync.WaitGroup and the drain of the error channel.                      *)
(*                                                                         *)
(* Strings whose characters the code inspects (member names, CSV fields)   *)
(* are sequences of one-character strings.                                 *)
(***************************************************************************)
EXTENDS Integers, Sequences, FiniteSets, TLC

\* ---------------------------------------------------------------- bounds
\* Largest number of members in the archive's central directory.
MaxFiles == 3
\* Largest number of members of an archive whose body is as long as the
\* read limit or longer.
MaxFilesAtLimit == 1
\* Largest number of members of the archives of the runs that are checked
\* for termination.
MaxFilesLive == 2
\* Largest number of records of a CSV stream parsed on its own.
MaxRows == 4
\* Largest number of characters of a symbol.
MaxSymbolLen == 3
\* Largest number of HTTP requests served at the same time.
MaxRequests == 2
\* Largest number of concurrent requests drawn from the whole RequestList;
\* more requests than this are drawn from ConcurrentKinds.
MaxRequestsAnyKind == 1

\* ------------------------------------------------------ program constants
\* io.LimitReader(resp.Body, 500*1024*1024)
MaxResponseBytes == 524288000
\* http.StatusOK
StatusOK == 200
\* if len(record) < 7
FieldsPerTrade == 7
\* len(fileName) > 4 && fileName[len(fileName)-4:] == ".csv"
CsvSuffixLen == 4

\* ------------------------------------------------------------- utilities
None == "none"

\* A nil *DownloadResult.
Nil == [nil |-> TRUE]

\* len(zipData) before zipData is assigned.
NotRead == 0 - 1

Min(a, b) == IF a < b THEN a ELSE b

Range(s) == {s[k] : k \in 1..Len(s)}

\* Number of positions of s holding x.
Count(s, x) == Cardinality({k \in 1..Len(s) : s[k] = x})

\* s[len(s)-n:]
LastN(s, n) == SubSeq(s, Len(s) - n + 1, Len(s))

Digits == {"0", "1", "2", "3", "4", "5", "6", "7", "8", "9"}

DigitVal(c) ==
    CASE c = "0" -> 0 [] c = "1" -> 1 [] c = "2" -> 2 [] c = "3" -> 3
      [] c = "4" -> 4 [] c = "5" -> 5 [] c = "6" -> 6 [] c = "7" -> 7
      [] c = "8" -> 8 [] c = "9" -> 9

AllDigits(s) == \A k \in 1..Len(s) : s[k] \in Digits

RECURSIVE DecValue(_)
DecValue(s) ==
    IF s = <<>> THEN 0
    ELSE DecValue(SubSeq(s, 1, Len(s) - 1)) * 10 + DigitVal(s[Len(s)])

HasSign(s) == Len(s) > 0 /\ s[1] \in {"+", "-"}

Unsigned(s) == IF HasSign(s) THEN Tail(s) ELSE s

\* Lower-casing of the letters that occur in the tokens of the model.
ToLowerChar(c) ==
    CASE c = "I" -> "i" [] c = "N" -> "n" [] c = "F" -> "f" [] c = "A" -> "a"
      [] c = "T" -> "t" [] c = "Y" -> "y" [] c = "R" -> "r" [] c = "U" -> "u"
      [] c = "E" -> "e" [] c = "L" -> "l" [] c = "S" -> "s"
      [] OTHER -> c

ToLower(s) == [k \in 1..Len(s) |-> ToLowerChar(s[k])]

\* ------------------------------------------------------ strconv, parseBool
\* strconv.ParseInt(s, 10, 64): an optional sign and one or more decimal
\* digits.  The tokens of the model have at most 9 digits, so the int64
\* range error cannot occur.
ParseIntOk(s) ==
    LET u == Unsigned(s) IN Len(u) > 0 /\ AllDigits(u)

ParseIntVal(s) ==
    LET v == DecValue(Unsigned(s)) IN
    IF Len(s) > 0 /\ s[1] = "-" THEN 0 - v ELSE v

\* Position of the first "." in s, 0 when there is none.
DotPos(s) ==
    IF \E k \in 1..Len(s) : s[k] = "."
    THEN CHOOSE k \in 1..Len(s) : s[k] = "." /\ \A j \in 1..(k - 1) : s[j] # "."
    ELSE 0

IntPart(u) == IF DotPos(u) = 0 THEN u ELSE SubSeq(u, 1, DotPos(u) - 1)

FracPart(u) == IF DotPos(u) = 0 THEN <<>> ELSE SubSeq(u, DotPos(u) + 1, Len(u))

IsSpecialFloat(u) ==
    ToLower(u) \in { <<"i", "n", "f">>, <<"n", "a", "n">>,
                     <<"i", "n", "f", "i", "n", "i", "t", "y">> }

\* The decimal forms strconv.ParseFloat(s, 64) accepts: an optional sign,
\* digits with at most one ".", at least one digit; and inf, infinity, nan
\* in any case.  (Exponents and hexadecimal floats do not occur in the
\* tokens of the model.)
IsDecimalFloat(u) ==
    /\ AllDigits(IntPart(u))
    /\ AllDigits(FracPart(u))
    /\ Len(IntPart(u)) + Len(FracPart(u)) > 0

ParseFloatOk(s) ==
    LET u == Unsigned(s) IN IsSpecialFloat(u) \/ IsDecimalFloat(u)

RECURSIVE StripZeros(_)
StripZeros(s) ==
    IF s # <<>> /\ s[Len(s)] = "0" THEN StripZeros(SubSeq(s, 1, Len(s) - 1))
    ELSE s

\* The value of a decimal float: sign, the digits without the point, and
\* the number of fraction digits, trailing fraction zeros removed (1.50 and
\* 1.5 are the same float64).
ParseFloatVal(s) ==
    LET u    == Unsigned(s)
        neg  == Len(s) > 0 /\ s[1] = "-"
        frac == StripZeros(FracPart(u))
    IN  IF IsSpecialFloat(u)
        THEN [special |-> ToLower(u), neg |-> neg, mant |-> 0, scale |-> 0]
        ELSE [special |-> <<>>,
              neg     |-> neg /\ DecValue(IntPart(u) \o frac) # 0,
              mant    |-> DecValue(IntPart(u) \o frac),
              scale   |-> Len(frac)]

\* isNumeric
isNumeric(s) == ParseFloatOk(s)

TrueTokens ==
    { <<"t", "r", "u", "e">>, <<"T", "r", "u", "e">>, <<"T", "R", "U", "E">>,
      <<"1">>, <<"t">>, <<"T">> }

FalseTokens ==
    { <<"f", "a", "l", "s", "e">>, <<"F", "a", "l", "s", "e">>,
      <<"F", "A", "L", "S", "E">>, <<"0">>, <<"f">>, <<"F">> }

\* parseBool
parseBoolOk(s) == s \in TrueTokens \cup FalseTokens

parseBoolVal(s) == s \in TrueTokens

\* parseTradeRecord: the error result (any of the seven conversions fails).
parseTradeRecordOk(record) ==
    /\ ParseIntOk(record[1])
    /\ ParseFloatOk(record[2])
    /\ ParseFloatOk(record[3])
    /\ ParseFloatOk(record[4])
    /\ ParseIntOk(record[5])
    /\ parseBoolOk(record[6])
    /\ parseBoolOk(record[7])


\* A parseTradeRecord that reads Quantity and QuoteQuantity from each
\* other's column.
parseTradeRecordColumnsSwapped(record) ==
    [ TradeID       |-> ParseIntVal(record[1]),
      Price         |-> ParseFloatVal(record[2]),
      Quantity      |-> ParseFloatVal(record[4]),
      QuoteQuantity |-> ParseFloatVal(record[3]),
      Timestamp     |-> ParseIntVal(record[5]),
      IsBuyerMaker  |-> parseBoolVal(record[6]),
      IsBestMatch   |-> parseBoolVal(record[7]) ]

\* parseTradeRecord: the Trade.
parseTradeRecord(record) ==
    [ TradeID       |-> ParseIntVal(record[1]),
      Price         |-> ParseFloatVal(record[2]),
      Quantity      |-> ParseFloatVal(record[3]),
      QuoteQuantity |-> ParseFloatVal(record[4]),
      Timestamp     |-> ParseIntVal(record[5]),
      IsBuyerMaker  |-> parseBoolVal(record[6]),
      IsBestMatch   |-> parseBoolVal(record[7]) ]

\* A header test that knows the two header names only.
IsHeaderRecordNamesOnly(record) ==
    /\ Len(record) > 0
    /\ \/ record[1] = <<"T", "r", "a", "d", "e", "I", "d">>
       \/ record[1] = <<"t", "r", "a", "d", "e", "_", "i", "d">>

\* A header test that takes every first record for the header.
IsHeaderRecordAnyFirstRow(record) == Len(record) > 0

\* The header test of parseCSVStreaming, applied to the first record read.
IsHeaderRecord(record) ==
    /\ Len(record) > 0
    /\ \/ record[1] = <<"T", "r", "a", "d", "e", "I", "d">>
       \/ record[1] = <<"t", "r", "a", "d", "e", "_", "i", "d">>
       \/ ~isNumeric(record[1])

\* csv.Reader.Read with FieldsPerRecord = 0: the first record fixes the
\* number of fields, and a later record with another number of fields is
\* returned with ErrFieldCount.
csvFieldCountError(rows, k) == k > 1 /\ Len(rows[k]) # Len(rows[1])

\* The loop of parseCSVStreaming from record k on.  st holds the locals
\* headerSkipped and trades; skipped holds the numbers of the records the
\* header branch passed over; idx holds, for each trade, the number of the
\* record it was parsed from.
RECURSIVE parseLoop(_, _, _, _)
parseLoop(rows, k, maxTrades, st) ==
    IF k > Len(rows) THEN st                                \* io.EOF
    ELSE IF csvFieldCountError(rows, k)
    THEN [st EXCEPT !.err = TRUE, !.trades = <<>>, !.idx = <<>>]
    ELSE IF ~st.headerSkipped /\ IsHeaderRecord(rows[k])
    THEN parseLoop(rows, k + 1, maxTrades,
                   [st EXCEPT !.headerSkipped = TRUE, !.skipped = Append(@, k)])
    ELSE IF maxTrades > 0 /\ Len(st.trades) >= maxTrades
    THEN [st EXCEPT !.headerSkipped = TRUE]
    ELSE IF Len(rows[k]) < FieldsPerTrade \/ ~parseTradeRecordOk(rows[k])
    THEN parseLoop(rows, k + 1, maxTrades, [st EXCEPT !.headerSkipped = TRUE])
    ELSE parseLoop(rows, k + 1, maxTrades,
                   [st EXCEPT !.headerSkipped = TRUE,
                              !.trades = Append(@, parseTradeRecord(rows[k])),
                              !.idx = Append(@, k)])

\* s back to front.
Reverse(s) == [k \in 1..Len(s) |-> s[Len(s) + 1 - k]]

\* A parser that returns the trades last record first.
parseCSVStreamingReversed(rows, maxTrades) ==
    LET st == parseLoop(rows, 1, maxTrades,
                        [err |-> FALSE, headerSkipped |-> FALSE,
                         skipped |-> <<>>, trades |-> <<>>, idx |-> <<>>])
    IN  [st EXCEPT !.trades = Reverse(@)]

\* parseCSVStreaming(reader, maxTrades) on a member whose records are rows.
parseCSVStreaming(rows, maxTrades) ==
    parseLoop(rows, 1, maxTrades,
              [err |-> FALSE, headerSkipped |-> FALSE, skipped |-> <<>>,
               trades |-> <<>>, idx |-> <<>>])


\* ------------------------------------------------------------ the inputs
\* The header row the upstream files carry.
HeaderRow ==
    <<<<"T", "r", "a", "d", "e", "I", "d">>, <<"P", "r", "i", "c", "e">>, <<"Q", "u", "a", "n", "t", "i", "t", "y">>, <<"Q", "u", "o", "t", "e", "Q", "u", "a", "n", "t", "i", "t", "y">>, <<"T", "i", "m", "e", "s", "t", "a", "m", "p">>, <<"I", "s", "B", "u", "y", "e", "r", "M", "a", "k", "e", "r">>, <<"I", "s", "B", "e", "s", "t", "M", "a", "t", "c", "h">>>>

\* Well-formed data rows; the trade id tells them apart.
Row1 == <<<<"1">>, <<"0", ".", "2", "5">>, <<"2">>, <<"3", ".", "0">>, <<"1", "0", "1">>, <<"F", "A", "L", "S", "E">>, <<"T">>>>
Row2 == <<<<"2">>, <<"2">>, <<"2">>, <<"3", ".", "0">>, <<"1", "0", "2">>, <<"1">>, <<"f">>>>
Row3 == <<<<"3">>, <<"1", "0", ".", "5", "0">>, <<"2">>, <<"3", ".", "0">>, <<"1", "0", "3">>, <<"T", "r", "u", "e">>, <<"F", "a", "l", "s", "e">>>>
Row4 == <<<<"4">>, <<".", "5">>, <<"2">>, <<"3", ".", "0">>, <<"1", "0", "4">>, <<"t">>, <<"F">>>>
Row5 == <<<<"5">>, <<"3", ".">>, <<"2">>, <<"3", ".", "0">>, <<"1", "0", "5">>, <<"T", "R", "U", "E">>, <<"f", "a", "l", "s", "e">>>>
Row6 == <<<<"6">>, <<"1", ".", "5">>, <<"2">>, <<"3", ".", "0">>, <<"1", "0", "6">>, <<"0">>, <<"1">>>>
Row7 == <<<<"7">>, <<"0", ".", "2", "5">>, <<"2">>, <<"3", ".", "0">>, <<"1", "0", "7">>, <<"t", "r", "u", "e">>, <<"0">>>>
Row8 == <<<<"8">>, <<"2">>, <<"2">>, <<"3", ".", "0">>, <<"1", "0", "8">>, <<"F", "A", "L", "S", "E">>, <<"T">>>>
Row9 == <<<<"9">>, <<"1", "0", ".", "5", "0">>, <<"2">>, <<"3", ".", "0">>, <<"1", "0", "9">>, <<"1">>, <<"f">>>>
Row10 == <<<<"1", "0">>, <<".", "5">>, <<"2">>, <<"3", ".", "0">>, <<"1", "1", "0">>, <<"T", "r", "u", "e">>, <<"F", "a", "l", "s", "e">>>>
Row11 == <<<<"1", "1">>, <<"3", ".">>, <<"2">>, <<"3", ".", "0">>, <<"1", "1", "1">>, <<"t">>, <<"F">>>>
Row12 == <<<<"1", "2">>, <<"1", ".", "5">>, <<"2">>, <<"3", ".", "0">>, <<"1", "1", "2">>, <<"T", "R", "U", "E">>, <<"f", "a", "l", "s", "e">>>>
Row13 == <<<<"1", "3">>, <<"0", ".", "2", "5">>, <<"2">>, <<"3", ".", "0">>, <<"1", "1", "3">>, <<"0">>, <<"1">>>>

\* Seven fields, the sixth is not a boolean token.
BadBoolRow == <<<<"2", "0">>, <<"1", ".", "5">>, <<"2">>, <<"3", ".", "0">>, <<"1", "0", "0">>, <<"y", "e", "s">>, <<"0">>>>

\* Three fields only.
ShortRow == <<<<"2", "1">>, <<"1", ".", "5">>, <<"2">>>>


\* A row of eight fields whose sixth field is not a boolean.
LongBadRow == <<<<"2", "2">>, <<"1", ".", "5">>, <<"2">>, <<"3", ".", "0">>, <<"1", "0", "0">>, <<"n", "o">>, <<"0">>, <<"x">>>>

\* The records the CSV streams parsed on their own are made of.
CsvRows == {HeaderRow, Row1, Row3, Row4, BadBoolRow, ShortRow, LongBadRow}


\* The upper-case letter of a lower-case letter of "true" and "false".
ToUpperChar(c) ==
    CASE c = "t" -> "T" [] c = "r" -> "R" [] c = "u" -> "U" [] c = "e" -> "E"
      [] c = "f" -> "F" [] c = "a" -> "A" [] c = "l" -> "L" [] c = "s" -> "S"
      [] OTHER -> c

\* Every spelling of the word w in upper-case and lower-case letters.
RECURSIVE Spellings(_)
Spellings(w) ==
    IF w = <<>> THEN {<<>>}
    ELSE {<<c>> \o rest : c \in {Head(w), ToUpperChar(Head(w))},
                          rest \in Spellings(Tail(w))}

\* The tokens parseBool is called with: the spellings of true, false, t and
\* f, the digits 1 and 0, and tokens that are no boolean in any spelling.
BoolTokens ==
    Spellings(<<"t", "r", "u", "e">>) \cup Spellings(<<"f", "a", "l", "s", "e">>)
      \cup Spellings(<<"t">>) \cup Spellings(<<"f">>)
      \cup { <<"1">>, <<"0">>, <<>>, <<"2">>, <<"y", "e", "s">>, <<"n", "o">>,
             <<"t", "r", "u">>, <<"T", "R", "U", "E", "E">>, <<" ", "1">>,
             <<"1", "0">>, <<"t", "f">> }

\* The CSV streams of at most n records.
CsvStreamsUpTo(n) == UNION {[1..m -> CsvRows] : m \in 0..n}

\* The header in the upstream's other spellings: trade_id, and id.
HeaderRowSnake ==
    <<<<"t", "r", "a", "d", "e", "_", "i", "d">>, <<"p", "r", "i", "c", "e">>, <<"q", "t", "y">>, <<"q", "u", "o", "t", "e", "_", "q", "t", "y">>, <<"t", "i", "m", "e">>, <<"i", "s", "_", "b", "u", "y", "e", "r", "_", "m", "a", "k", "e", "r">>, <<"i", "s", "_", "b", "e", "s", "t", "_", "m", "a", "t", "c", "h">>>>

HeaderRowId ==
    <<<<"i", "d">>, <<"p", "r", "i", "c", "e">>, <<"q", "t", "y">>, <<"q", "u", "o", "t", "e", "_", "q", "t", "y">>, <<"t", "i", "m", "e">>, <<"i", "s", "_", "b", "u", "y", "e", "r", "_", "m", "a", "k", "e", "r">>, <<"i", "s", "_", "b", "e", "s", "t", "_", "m", "a", "t", "c", "h">>>>

\* Rows whose fields after the first are those of a trade and whose first
\* field is header text, a decimal fraction, inf, and a signed integer.
TradeIdDataRow == <<<<"T", "r", "a", "d", "e", "I", "d">>, <<"1", ".", "5">>, <<"2">>, <<"3", ".", "0">>, <<"1", "0", "0">>, <<"1">>, <<"0">>>>
FractionIdRow == <<<<"1", ".", "5">>, <<"1", ".", "5">>, <<"2">>, <<"3", ".", "0">>, <<"1", "0", "0">>, <<"1">>, <<"0">>>>
InfIdRow == <<<<"i", "n", "f">>, <<"1", ".", "5">>, <<"2">>, <<"3", ".", "0">>, <<"1", "0", "0">>, <<"1">>, <<"0">>>>
SignedIdRow == <<<<"+", "5">>, <<"1", ".", "5">>, <<"2">>, <<"3", ".", "0">>, <<"1", "0", "0">>, <<"1">>, <<"0">>>>

\* A header of three fields.
ShortHeaderRow == <<<<"i", "d">>, <<"p", "r", "i", "c", "e">>, <<"q", "t", "y">>>>

\* The records a stream can begin with, and the records that can follow.
FirstRows ==
    {HeaderRow, HeaderRowSnake, HeaderRowId, TradeIdDataRow, FractionIdRow,
     InfIdRow, SignedIdRow, ShortHeaderRow, Row1, ShortRow}

LaterRows == {HeaderRow, HeaderRowId, TradeIdDataRow, Row3, ShortRow}

\* The streams of at most n records that begin with one of FirstRows.
HeaderStreamsUpTo(n) ==
    UNION {{<<f>> \o s : f \in FirstRows, s \in [1..m -> LaterRows]} : m \in 0..(n - 1)}

CsvStreams == CsvStreamsUpTo(MaxRows) \cup HeaderStreamsUpTo(MaxRows)

CsvExt == <<".", "c", "s", "v">>

\* zip.File as the code uses it: Name, FileInfo().IsDir(), whether Open()
\* fails, and the records of the member's content.
\* Header and 2 rows.
MemberA == [Name |-> <<"a", ".", "c", "s", "v">>, IsDir |-> FALSE, openErr |-> FALSE,
            rows |-> <<HeaderRow, Row1, Row2>>]
\* No header, 3 well-formed rows and one whose boolean does not convert.
MemberB == [Name |-> <<"b", ".", "c", "s", "v">>, IsDir |-> FALSE, openErr |-> FALSE,
            rows |-> <<Row3, BadBoolRow, Row4, Row5>>]
\* Header and 5 rows.
MemberE == [Name |-> <<"e", ".", "c", "s", "v">>, IsDir |-> FALSE, openErr |-> FALSE,
            rows |-> <<HeaderRow, Row6, Row7, Row8, Row9, Row10>>]
\* Cannot be opened (unsupported compression method).
MemberC == [Name |-> <<"c", ".", "c", "s", "v">>, IsDir |-> FALSE, openErr |-> TRUE,
            rows |-> <<HeaderRow, Row11>>]
\* The third record has 3 fields where the first has 7: csv.ErrFieldCount.
MemberD == [Name |-> <<"d", ".", "c", "s", "v">>, IsDir |-> FALSE, openErr |-> FALSE,
            rows |-> <<HeaderRow, Row11, ShortRow>>]
\* The whole name is ".csv".
MemberDotCsv == [Name |-> CsvExt, IsDir |-> FALSE, openErr |-> FALSE,
                 rows |-> <<Row12>>]
\* CSV content under another extension.
MemberTxt == [Name |-> <<"f", ".", "t", "x", "t">>, IsDir |-> FALSE, openErr |-> FALSE,
              rows |-> <<Row13>>]
\* A directory entry whose name ends in ".csv".
MemberDir == [Name |-> <<"g", ".", "c", "s", "v">>, IsDir |-> TRUE, openErr |-> FALSE,
              rows |-> <<>>]

\* The members archives are built from.  Regular files and other entries
\* alternate, so that a member that is not selected can come before and
\* after a selected one.
MemberList ==
    <<MemberTxt, MemberA, MemberDir, MemberB, MemberC, MemberDotCsv, MemberD,
      MemberE>>

Members == Range(MemberList)

\* zipReader.File for every archive of at most n members, each member given
\* by its position in MemberList, the members in the order of MemberList
\* (the goroutines still run in every order).
ArchivesUpTo(n) ==
    { g \in UNION { [1..m -> 1..Len(MemberList)] : m \in 0..n } :
        \A j \in 1..(Len(g) - 1) : g[j] <= g[j + 1] }

Archives == ArchivesUpTo(MaxFiles)



\* ------------------------------------------------------ the symbol check
UpperLetters ==
    { "A", "B", "C", "D", "E", "F", "G", "H", "I", "J", "K", "L", "M",
      "N", "O", "P", "Q", "R", "S", "T", "U", "V", "W", "X", "Y", "Z" }

\* The character class [A-Z0-9].
SymbolClass == UpperLetters \cup Digits

\* regexp.MatchString on a pattern "class+", with "^" before it when
\* atStart and "$" after it when atEnd: some run of one or more characters
\* of the class, from the first character of s when atStart, to the last
\* when atEnd ("$" without the m flag only matches at the end of the text).
MatchClassPlus(s, class, atStart, atEnd) ==
    \E i \in 1..Len(s) : \E j \in i..Len(s) :
        /\ atStart => i = 1
        /\ atEnd => j = Len(s)
        /\ \A k \in i..j : s[k] \in class

\* A validateSymbol whose pattern is "[A-Z0-9]+", without "^" and "$".
validateSymbolUnanchored(symbol) ==
    IF symbol = <<>> THEN "symbol cannot be empty"
    ELSE IF ~MatchClassPlus(symbol, SymbolClass, FALSE, FALSE)
    THEN "invalid symbol format"
    ELSE None

\* validateSymbol: the error, None for nil.
validateSymbol(symbol) ==
    IF symbol = <<>> THEN "symbol cannot be empty"
    ELSE IF ~MatchClassPlus(symbol, SymbolClass, TRUE, TRUE)
    THEN "invalid symbol format"
    ELSE None

\* The characters of the symbols validateSymbol is called with.
SymbolChars == {"A", "Z", "0", "9", "b", " ", "-", "\n"}

\* The symbols of at most n characters.
SymbolsUpTo(n) == UNION {[1..m -> SymbolChars] : m \in 0..n}

Symbols == SymbolsUpTo(MaxSymbolLen)

\* ------------------------------------------------------- the date checks
\* strconv.Atoi: ParseInt in base 10.
AtoiOk(s) == ParseIntOk(s)

Atoi(s) == ParseIntVal(s)

\* A formatDate that puts a zero before month and day of any length.
formatDatePadAlways(year, month, day) ==
    <<year, <<"0">> \o month, <<"0">> \o day>>

\* formatDate
formatDate(year, month, day) ==
    << year,
       IF Len(month) = 1 THEN <<"0">> \o month ELSE month,
       IF Len(day) = 1 THEN <<"0">> \o day ELSE day >>

\* fmt.Sprintf("%s-%s-%s", year, month, day)
DateString(year, month, day) == year \o <<"-">> \o month \o <<"-">> \o day

\* The time package's isLeap, daysBefore and daysIn.
isLeap(year) == year % 4 = 0 /\ (year % 100 # 0 \/ year % 400 = 0)

daysBefore == <<0, 31, 59, 90, 120, 151, 181, 212, 243, 273, 304, 334, 365>>

daysIn(m, year) ==
    IF m = 2 /\ isLeap(year) THEN 29 ELSE daysBefore[m + 1] - daysBefore[m]

\* time.Parse("2006-01-02", value) returns no error: four digits of year,
\* two of month and two of day with "-" between and nothing after, the month
\* in 1..12 and the day in the month.
timeParseOk(value) ==
    /\ Len(value) = 10
    /\ AllDigits(SubSeq(value, 1, 4))
    /\ value[5] = "-"
    /\ AllDigits(SubSeq(value, 6, 7))
    /\ value[8] = "-"
    /\ AllDigits(SubSeq(value, 9, 10))
    /\ LET year  == DecValue(SubSeq(value, 1, 4))
           month == DecValue(SubSeq(value, 6, 7))
           day   == DecValue(SubSeq(value, 9, 10))
       IN  /\ month >= 1 /\ month <= 12
           /\ day >= 1 /\ day <= daysIn(month, year)

\* A validateDate that does not parse the date: the three ranges only.
validateDateRangesOnly(year, month, day) ==
    IF ~AtoiOk(year) \/ Atoi(year) < 2000 \/ Atoi(year) > 2100
    THEN "invalid year"
    ELSE IF ~AtoiOk(month) \/ Atoi(month) < 1 \/ Atoi(month) > 12
    THEN "invalid month"
    ELSE IF ~AtoiOk(day) \/ Atoi(day) < 1 \/ Atoi(day) > 31
    THEN "invalid day"
    ELSE None

\* validateDate: the error, None for nil.
validateDate(year, month, day) ==
    IF ~AtoiOk(year) \/ Atoi(year) < 2000 \/ Atoi(year) > 2100
    THEN "invalid year"
    ELSE IF ~AtoiOk(month) \/ Atoi(month) < 1 \/ Atoi(month) > 12
    THEN "invalid month"
    ELSE IF ~AtoiOk(day) \/ Atoi(day) < 1 \/ Atoi(day) > 31
    THEN "invalid day"
    ELSE LET f == formatDate(year, month, day)
         IN  IF ~timeParseOk(DateString(f[1], f[2], f[3]))
             THEN "invalid date"
             ELSE None

\* The year, month and day parameters the date functions are called with.
YearTokens ==
    { <<"2", "0", "2", "5">>, <<"2", "0", "2", "4">>, <<"2", "0", "0", "0">>,
      <<"2", "1", "0", "0">>, <<"1", "9", "9", "9">>, <<"2", "1", "0", "1">>,
      <<"+", "2", "0", "2", "5">>, <<"0", "2", "0", "2", "5">>,
      <<"2", "0", "x", "5">>, <<>> }

MonthTokens ==
    { <<"1">>, <<"2">>, <<"0", "2">>, <<"4">>, <<"0", "4">>, <<"1", "2">>,
      <<"1", "3">>, <<"0">>, <<"0", "0">>, <<"+", "2">>, <<"0", "0", "2">>,
      <<"x">>, <<>> }

DayTokens ==
    { <<"1">>, <<"0", "1">>, <<"5">>, <<"2", "8">>, <<"2", "9">>,
      <<"3", "0">>, <<"3", "1">>, <<"3", "2">>, <<"0">>, <<"+", "5">>,
      <<"0", "0", "5">>, <<"3", "x">>, <<>> }

DateArgs == YearTokens \X MonthTokens \X DayTokens

\* ------------------------------------------------- the archive's address
\* "https://data.binance.vision/data/spot/daily/trades/"
URLPrefix ==
    <<"h", "t", "t", "p", "s", ":", "/", "/", "d", "a", "t", "a", ".", "b", 
      "i", "n", "a", "n", "c", "e", ".", "v", "i", "s", "i", "o", "n", "/", 
      "d", "a", "t", "a", "/", "s", "p", "o", "t", "/", "d", "a", "i", "l", 
      "y", "/", "t", "r", "a", "d", "e", "s", "/">>

\* fmt.Sprintf(".../%s/%s-trades-%s-%s-%s.zip", symbol, symbol, year, month, day)
ArchiveURL(symbol, year, month, day) ==
    URLPrefix \o symbol \o <<"/">> \o symbol
      \o <<"-", "t", "r", "a", "d", "e", "s", "-">>
      \o year \o <<"-">> \o month \o <<"-">> \o day
      \o <<".", "z", "i", "p">>

\* A call that takes the Date of the result from the parameters as given.
RequestNamesDateAsGiven(symbol, year, month, day) ==
    LET f == formatDate(year, month, day)
    IN  [url  |-> ArchiveURL(symbol, f[1], f[2], f[3]),
         Date |-> DateString(year, month, day)]

\* The address DownloadTrades requests and the Date of its result:
\* year, month, day = formatDate(year, month, day), then both Sprintf calls.
RequestNames(symbol, year, month, day) ==
    LET f == formatDate(year, month, day)
    IN  [url  |-> ArchiveURL(symbol, f[1], f[2], f[3]),
         Date |-> DateString(f[1], f[2], f[3])]

\* The symbols DownloadTrades is called with on its own.
NameSymbols == { <<"A", "Z", "9">>, <<"B">> }

\* ---------------------------------------------------------------- state
VARIABLES
    response,   \* what the server and the network do with the one request
    files,      \* zipReader.File of the archive in the body, as positions in MemberList
    ctxDone,    \* the caller's context is cancelled or past its deadline
    pc,         \* position of DownloadTrades
    requests,   \* number of calls of c.client.Do
    zipData,    \* len(zipData), NotRead before the body is read
    zipOpened,  \* zip.NewReader has been called
    result,     \* *DownloadResult: [Trades, TradeCount], Nil before line 143
    origin,     \* for each element of result.Trades: its member and record
    csvFound,   \* csvFound
    loopIdx,    \* index of the member the range loop is at
    wg,         \* counter of the sync.WaitGroup
    mu,         \* sync.Mutex: 0 when free, else the worker holding it
    errors,     \* contents of the buffered channel errors
    closed,     \* close(errors) was called
    errs,       \* errs
    wpc,        \* position of the goroutine of each member
    wtrades,    \* trades of each goroutine: the value parseCSVStreaming returned
    ret,        \* what DownloadTrades returned
    call,       \* a function called on its own: [fn, arg]
    returned,   \* what that function returned: [done, val]
    server,     \* the wiring that serves /download: "main" or "handlers"
    reqs,       \* the HTTP requests being served, as positions in RequestList
    hpc,        \* position of the handler goroutine of each request
    reg,        \* the counter value each goroutine has loaded, 0 when unused
    pending,    \* the response each goroutine is about to write
    resp,       \* the response written for each request: [status, success]
    connArgs,   \* the arguments of each goroutine's call of DownloadTrades
    counted,    \* each goroutine's own increments: [total, succ, fail]
    metrics,    \* RequestMetrics: the four counters
    metricsMu   \* metrics.mu: 0 when free, else the goroutine holding it

\* The state of a call of DownloadTrades.
downloadVars ==
    <<response, files, ctxDone, pc, requests, zipData, zipOpened, result,
      origin, csvFound, loopIdx, wg, mu, errors, closed, errs, wpc, wtrades, ret>>

\* The state of the HTTP handlers.
handlerVars ==
    <<server, reqs, hpc, reg, pending, resp, connArgs, counted, metrics, metricsMu>>

vars == <<downloadVars, call, returned, handlerVars>>

Workers == DOMAIN wpc

\* zipReader.File[i]
File(i) == MemberList[files[i]]

\* What parseCSVStreaming(rc, 0) returns for each member of MemberList: the
\* call of the goroutine, evaluated once per member content.
ParsedMember ==
    [m \in 1..Len(MemberList) |-> parseCSVStreaming(MemberList[m].rows, 0)]

\* The HTTP statuses the model's server answers with.
Statuses == {200, 404, 500}

\* Body lengths: empty, an ordinary archive, exactly the limit, one byte more.
BodyLens == {0, 1000, MaxResponseBytes, MaxResponseBytes + 1}

\* netErr: c.client.Do fails without cancellation (DNS, refused connection).
\* readErr: the body read fails (connection reset).
\* zipOk: the bytes io.ReadAll returned are a zip archive.
\* stall: the server stops sending, before the response headers or in the
\* body; the blocked call then only returns when the context is done.
Stalls == {"no", "headers", "body"}

Responses ==
    [netErr : BOOLEAN, status : Statuses, bodyLen : BodyLens,
     readErr : BOOLEAN, zipOk : BOOLEAN, stall : Stalls]

\* The central directory is only read when the request got as far as
\* zip.NewReader and the bytes are an archive.
ReachesArchive(r) ==
    /\ ~r.netErr /\ r.status = StatusOK /\ ~r.readErr /\ r.bodyLen > 0 /\ r.zipOk
    /\ r.stall = "no"

NoReturn == [kind |-> None, err |-> None, errs |-> <<>>, result |-> Nil]

\* No function is called on its own.
NoCall == [fn |-> None, arg |-> <<>>]

\* The called function has not returned.
NotReturned == [done |-> FALSE, val |-> <<>>]

\* RequestMetrics of a server that has served nothing.
ZeroMetrics ==
    [TotalRequests |-> 0, SuccessfulRequests |-> 0, FailedRequests |-> 0,
     ActiveRequests |-> 0]

\* No HTTP request is being served.
NoHandler ==
    /\ server = None
    /\ reqs = <<>>
    /\ hpc = <<>>
    /\ reg = <<>>
    /\ pending = <<>>
    /\ resp = <<>>
    /\ connArgs = <<>>
    /\ counted = <<>>
    /\ metrics = ZeroMetrics
    /\ metricsMu = 0

Init ==
    /\ call = NoCall
    /\ returned = NotReturned
    /\ NoHandler
    /\ response \in Responses
    /\ files \in Archives
    /\ ReachesArchive(response) \/ files = <<>>
    /\ response.bodyLen >= MaxResponseBytes => Len(files) <= MaxFilesAtLimit
    /\ ctxDone = FALSE
    /\ pc = "request"
    /\ requests = 0
    /\ zipData = NotRead
    /\ zipOpened = FALSE
    /\ result = Nil
    /\ origin = <<>>
    /\ csvFound = FALSE
    /\ loopIdx = 1
    /\ wg = 0
    /\ mu = 0
    /\ errors = <<>>
    /\ closed = FALSE
    /\ errs = <<>>
    /\ wpc = [i \in 1..Len(files) |-> "idle"]
    /\ wtrades = [i \in 1..Len(files) |-> <<>>]
    /\ ret = NoReturn


\* An error path that, instead of returning, starts the call over.
ReturnErrorRetry(e, es) ==
    /\ pc' = "request"
    /\ ret' = ret

\* return nil, fmt.Errorf(...)
ReturnError(e, es) ==
    /\ pc' = "done"
    /\ ret' = [kind |-> "error", err |-> e, errs |-> es, result |-> Nil]

\* ---------------------------------------------------------- the download
\* The context is cancelled or its deadline passes (the handler's
\* context.WithTimeout, the client's Timeout).  After the body has been read
\* the code does not look at the context again.
Cancel ==
    /\ pc \in {"request", "status", "read"}
    /\ ~ctxDone
    /\ ctxDone' = TRUE
    /\ UNCHANGED <<handlerVars, call, returned, response, files, pc, requests, zipData, zipOpened, result,
                   origin, csvFound, loopIdx, wg, mu, errors, closed, errs, wpc,
                   wtrades, ret>>

\* formatDate, the URL, http.NewRequestWithContext and c.client.Do.
DoRequest ==
    /\ pc = "request"
    /\ ctxDone \/ response.stall # "headers"
    /\ requests' = requests + 1
    /\ IF ctxDone \/ response.netErr
       THEN ReturnError("failed to download file", <<>>)
       ELSE pc' = "status" /\ UNCHANGED ret
    /\ UNCHANGED <<handlerVars, call, returned, response, files, ctxDone, zipData, zipOpened, result, origin,
                   csvFound, loopIdx, wg, mu, errors, closed, errs, wpc, wtrades>>

\* A status check that only rejects server errors (5xx).
CheckStatusServerErrorsOnly ==
    /\ pc = "status"
    /\ IF response.status >= 500
       THEN ReturnError("status code", <<>>)
       ELSE pc' = "read" /\ UNCHANGED ret
    /\ UNCHANGED <<handlerVars, call, returned, response, files, ctxDone, requests, zipData, zipOpened,
                   result, origin, csvFound, loopIdx, wg, mu, errors, closed, errs,
                   wpc, wtrades>>

\* if resp.StatusCode != http.StatusOK
CheckStatus ==
    /\ pc = "status"
    /\ IF response.status # StatusOK
       THEN ReturnError("status code", <<>>)
       ELSE pc' = "read" /\ UNCHANGED ret
    /\ UNCHANGED <<handlerVars, call, returned, response, files, ctxDone, requests, zipData, zipOpened,
                   result, origin, csvFound, loopIdx, wg, mu, errors, closed, errs,
                   wpc, wtrades>>

\* io.LimitReader(resp.Body, n): at most n bytes, then io.EOF.
LimitReader(bodyLen, n) == Min(bodyLen, n)

\* A body read whose error is dropped: the bytes read so far go on.
ReadBodyErrorIgnored ==
    /\ pc = "read"
    /\ zipData' = LimitReader(response.bodyLen, MaxResponseBytes)
    /\ pc' = "empty"
    /\ UNCHANGED <<handlerVars, call, returned, response, files, ctxDone, requests, zipOpened, result, origin,
                   csvFound, loopIdx, wg, mu, errors, closed, errs, wpc, wtrades,
                   ret>>

\* A body read that does not watch the context: it blocks for as long as
\* the server sends nothing.
ReadBodyUninterruptible ==
    /\ pc = "read"
    /\ response.stall # "body"
    /\ IF response.readErr
       THEN ReturnError("failed to read zip file", <<>>) /\ UNCHANGED zipData
       ELSE /\ zipData' = LimitReader(response.bodyLen, MaxResponseBytes)
            /\ pc' = "empty"
            /\ UNCHANGED ret
    /\ UNCHANGED <<handlerVars, call, returned, response, files, ctxDone, requests, zipOpened, result, origin,
                   csvFound, loopIdx, wg, mu, errors, closed, errs, wpc, wtrades>>

\* zipData, err := io.ReadAll(io.LimitReader(resp.Body, 500*1024*1024))
ReadBody ==
    /\ pc = "read"
    /\ ctxDone \/ response.stall # "body"
    /\ IF ctxDone \/ response.readErr
       THEN ReturnError("failed to read zip file", <<>>) /\ UNCHANGED zipData
       ELSE /\ zipData' = LimitReader(response.bodyLen, MaxResponseBytes)
            /\ pc' = "empty"
            /\ UNCHANGED ret
    /\ UNCHANGED <<handlerVars, call, returned, response, files, ctxDone, requests, zipOpened, result, origin,
                   csvFound, loopIdx, wg, mu, errors, closed, errs, wpc, wtrades>>

\* if len(zipData) == 0
CheckEmpty ==
    /\ pc = "empty"
    /\ IF zipData = 0
       THEN ReturnError("downloaded file is empty", <<>>)
       ELSE pc' = "zip" /\ UNCHANGED ret
    /\ UNCHANGED <<handlerVars, call, returned, response, files, ctxDone, requests, zipData, zipOpened,
                   result, origin, csvFound, loopIdx, wg, mu, errors, closed, errs,
                   wpc, wtrades>>

\* zip.NewReader(bytes.NewReader(zipData), int64(len(zipData)))
OpenZip ==
    /\ pc = "zip"
    /\ zipOpened' = TRUE
    /\ IF ~response.zipOk
       THEN ReturnError("failed to create zip reader", <<>>)
       ELSE pc' = "result" /\ UNCHANGED ret
    /\ UNCHANGED <<handlerVars, call, returned, response, files, ctxDone, requests, zipData, result, origin,
                   csvFound, loopIdx, wg, mu, errors, closed, errs, wpc, wtrades>>

\* result := &DownloadResult{..., TradeCount: 0, Trades: []Trade{}} and
\* errors := make(chan error, len(zipReader.File))
NewResult ==
    /\ pc = "result"
    /\ result' = [Trades |-> <<>>, TradeCount |-> 0]
    /\ pc' = "loop"
    /\ UNCHANGED <<handlerVars, call, returned, response, files, ctxDone, requests, zipData, zipOpened,
                   origin, csvFound, loopIdx, wg, mu, errors, closed, errs, wpc,
                   wtrades, ret>>


\* ------------------------------------------------------------ the fan-out
\* A selection that does not look at FileInfo().IsDir().
IsSelectedAnyKind(file) ==
    /\ Len(file.Name) > CsvSuffixLen
    /\ LastN(file.Name, CsvSuffixLen) = CsvExt

\* !file.FileInfo().IsDir() && len(fileName) > 4 &&
\* fileName[len(fileName)-4:] == ".csv"
IsSelected(file) ==
    /\ ~file.IsDir
    /\ Len(file.Name) > CsvSuffixLen
    /\ LastN(file.Name, CsvSuffixLen) = CsvExt

\* One iteration of `for _, file := range zipReader.File`: for a selected
\* member csvFound = true, wg.Add(1) and the go statement.
LoopStep ==
    /\ pc = "loop"
    /\ loopIdx <= Len(files)
    /\ IF IsSelected(File(loopIdx))
       THEN /\ csvFound' = TRUE
            /\ wg' = wg + 1
            /\ wpc' = [wpc EXCEPT ![loopIdx] = "open"]
       ELSE UNCHANGED <<csvFound, wg, wpc>>
    /\ loopIdx' = loopIdx + 1
    /\ UNCHANGED <<handlerVars, call, returned, response, files, ctxDone, pc, requests, zipData, zipOpened,
                   result, origin, mu, errors, closed, errs, wtrades, ret>>

\* The range loop is over: if !csvFound { return nil, ... }
CheckFound ==
    /\ pc = "loop"
    /\ loopIdx > Len(files)
    /\ IF ~csvFound
       THEN ReturnError("no CSV files found in the archive", <<>>)
       ELSE pc' = "wait" /\ UNCHANGED ret
    /\ UNCHANGED <<handlerVars, call, returned, response, files, ctxDone, requests, zipData, zipOpened,
                   result, origin, csvFound, loopIdx, wg, mu, errors, closed,
                   errs, wpc, wtrades>>

\* ------------------------------------------------------------ a goroutine
\* rc, err := f.Open()
WorkerOpen(i) ==
    /\ wpc[i] = "open"
    /\ wpc' = [wpc EXCEPT ![i] = IF File(i).openErr THEN "sendOpenErr" ELSE "parse"]
    /\ UNCHANGED <<handlerVars, call, returned, response, files, ctxDone, pc, requests, zipData, zipOpened,
                   result, origin, csvFound, loopIdx, wg, mu, errors, closed,
                   errs, wtrades, ret>>

\* trades, err := parseCSVStreaming(rc, 0)
WorkerParse(i) ==
    /\ wpc[i] = "parse"
    /\ LET parsed == ParsedMember[files[i]] IN
       IF parsed.err
       THEN /\ wpc' = [wpc EXCEPT ![i] = "sendParseErr"]
            /\ UNCHANGED wtrades
       ELSE /\ wpc' = [wpc EXCEPT ![i] = "lock"]
            /\ wtrades' = [wtrades EXCEPT ![i] = parsed.trades]
    /\ UNCHANGED <<handlerVars, call, returned, response, files, ctxDone, pc, requests, zipData, zipOpened,
                   result, origin, csvFound, loopIdx, wg, mu, errors, closed,
                   errs, ret>>

\* A channel with room for half of the archive's members.
ErrorsCapHalf == Len(files) \div 2

\* cap(errors)
ErrorsCap == Len(files)

\* errors <- fmt.Errorf("failed to open file ...") or
\* errors <- fmt.Errorf("failed to parse CSV ..."), then return
WorkerSendError(i) ==
    /\ wpc[i] \in {"sendOpenErr", "sendParseErr"}
    /\ Len(errors) < ErrorsCap
    /\ errors' = Append(errors,
                        [file |-> i,
                         kind |-> IF wpc[i] = "sendOpenErr" THEN "open" ELSE "parse"])
    /\ wpc' = [wpc EXCEPT ![i] = "deferred"]
    /\ UNCHANGED <<handlerVars, call, returned, response, files, ctxDone, pc, requests, zipData, zipOpened,
                   result, origin, csvFound, loopIdx, wg, mu, closed, errs,
                   wtrades, ret>>

\* A goroutine that goes on to the append without taking the mutex.
WorkerLockMissing(i) ==
    /\ wpc[i] = "lock"
    /\ wpc' = [wpc EXCEPT ![i] = "append"]
    /\ UNCHANGED <<handlerVars, call, returned, response, files, ctxDone, pc, requests, zipData, zipOpened,
                   result, origin, csvFound, loopIdx, wg, mu, errors, closed,
                   errs, wtrades, ret>>

\* mu.Lock()
WorkerLock(i) ==
    /\ wpc[i] = "lock"
    /\ mu = 0
    /\ mu' = i
    /\ wpc' = [wpc EXCEPT ![i] = "append"]
    /\ UNCHANGED <<handlerVars, call, returned, response, files, ctxDone, pc, requests, zipData, zipOpened,
                   result, origin, csvFound, loopIdx, wg, errors, closed, errs,
                   wtrades, ret>>

\* The records of member i a successful parse yields, by record number.
TradeOrigins(i) ==
    LET idx == ParsedMember[files[i]].idx IN
    [k \in 1..Len(idx) |-> [file |-> i, row |-> idx[k]]]

\* An append that starts from a stale, empty result.Trades (a lost update).
AppendTradesLost(all, trades) == trades

\* append(result.Trades, trades...)
AppendTrades(all, trades) == all \o trades

\* A goroutine that appends its trades twice.
WorkerAppendTwice(i) ==
    /\ wpc[i] = "append"
    /\ result' = [result EXCEPT !.Trades = AppendTrades(AppendTrades(@, wtrades[i]), wtrades[i])]
    /\ origin' = origin \o TradeOrigins(i) \o TradeOrigins(i)
    /\ wpc' = [wpc EXCEPT ![i] = "count"]
    /\ UNCHANGED <<handlerVars, call, returned, response, files, ctxDone, pc, requests, zipData, zipOpened,
                   csvFound, loopIdx, wg, mu, errors, closed, errs, wtrades, ret>>

\* A goroutine that puts its first trade before the trades already in the
\* result and the others after them.
WorkerAppendScattered(i) ==
    /\ wpc[i] = "append"
    /\ result' = [result EXCEPT !.Trades =
                     IF wtrades[i] = <<>> THEN @
                     ELSE <<Head(wtrades[i])>> \o @ \o Tail(wtrades[i])]
    /\ origin' = IF TradeOrigins(i) = <<>> THEN origin
                 ELSE <<Head(TradeOrigins(i))>> \o origin \o Tail(TradeOrigins(i))
    /\ wpc' = [wpc EXCEPT ![i] = "count"]
    /\ UNCHANGED <<handlerVars, call, returned, response, files, ctxDone, pc, requests, zipData, zipOpened,
                   csvFound, loopIdx, wg, mu, errors, closed, errs, wtrades, ret>>

\* result.Trades = append(result.Trades, trades...)
WorkerAppend(i) ==
    /\ wpc[i] = "append"
    /\ result' = [result EXCEPT !.Trades = AppendTrades(@, wtrades[i])]
    /\ origin' = origin \o TradeOrigins(i)
    /\ wpc' = [wpc EXCEPT ![i] = "count"]
    /\ UNCHANGED <<handlerVars, call, returned, response, files, ctxDone, pc, requests, zipData, zipOpened,
                   csvFound, loopIdx, wg, mu, errors, closed, errs, wtrades, ret>>

\* result.TradeCount = len(result.Trades)
WorkerCount(i) ==
    /\ wpc[i] = "count"
    /\ result' = [result EXCEPT !.TradeCount = Len(result.Trades)]
    /\ wpc' = [wpc EXCEPT ![i] = "unlock"]
    /\ UNCHANGED <<handlerVars, call, returned, response, files, ctxDone, pc, requests, zipData, zipOpened,
                   origin, csvFound, loopIdx, wg, mu, errors, closed, errs,
                   wtrades, ret>>

\* mu.Unlock()
WorkerUnlock(i) ==
    /\ wpc[i] = "unlock"
    /\ mu' = 0
    /\ wpc' = [wpc EXCEPT ![i] = "deferred"]
    /\ UNCHANGED <<handlerVars, call, returned, response, files, ctxDone, pc, requests, zipData, zipOpened,
                   result, origin, csvFound, loopIdx, wg, errors, closed, errs,
                   wtrades, ret>>

\* The deferred calls when the goroutine returns: rc.Close(), wg.Done().
WorkerDone(i) ==
    /\ wpc[i] = "deferred"
    /\ wg' = wg - 1
    /\ wpc' = [wpc EXCEPT ![i] = "exited"]
    /\ UNCHANGED <<handlerVars, call, returned, response, files, ctxDone, pc, requests, zipData, zipOpened,
                   result, origin, csvFound, loopIdx, mu, errors, closed, errs,
                   wtrades, ret>>

\* -------------------------------------------------------------- the fan-in
\* A wait that returns at once.
WaitConditionNone == TRUE

\* wg.Wait() returns when the counter is zero.
WaitCondition == wg = 0

\* wg.Wait()
Wait ==
    /\ pc = "wait"
    /\ WaitCondition
    /\ pc' = "close"
    /\ UNCHANGED <<handlerVars, call, returned, response, files, ctxDone, requests, zipData, zipOpened,
                   result, origin, csvFound, loopIdx, wg, mu, errors, closed,
                   errs, wpc, wtrades, ret>>

\* close(errors)
CloseErrors ==
    /\ pc = "close"
    /\ closed' = TRUE
    /\ pc' = "drain"
    /\ UNCHANGED <<handlerVars, call, returned, response, files, ctxDone, requests, zipData, zipOpened,
                   result, origin, csvFound, loopIdx, wg, mu, errors, errs, wpc,
                   wtrades, ret>>

\* A fan-in that keeps the first error only.
CollectFirstError(chan) == IF chan = <<>> THEN <<>> ELSE <<Head(chan)>>

\* for err := range errors { if err != nil { errs = append(errs, err) } }
\* The channel is closed, so the range ends when the buffer is empty.
CollectErrors(chan) == chan

Drain ==
    /\ pc = "drain"
    /\ closed
    /\ errs' = CollectErrors(errors)
    /\ errors' = <<>>
    /\ pc' = "return"
    /\ UNCHANGED <<handlerVars, call, returned, response, files, ctxDone, requests, zipData, zipOpened,
                   result, origin, csvFound, loopIdx, wg, mu, closed, wpc,
                   wtrades, ret>>

\* if len(errs) > 0 { return nil, ... }; return result, nil
Return ==
    /\ pc = "return"
    /\ IF Len(errs) > 0
       THEN ReturnError("errors processing CSV files", errs)
       ELSE /\ pc' = "done"
            /\ ret' = [kind |-> "result", err |-> None, errs |-> <<>>,
                       result |-> result]
    /\ UNCHANGED <<handlerVars, call, returned, response, files, ctxDone, requests, zipData, zipOpened,
                   result, origin, csvFound, loopIdx, wg, mu, errors, closed,
                   errs, wpc, wtrades>>

Worker(i) ==
    \/ WorkerOpen(i)
    \/ WorkerParse(i)
    \/ WorkerSendError(i)
    \/ WorkerLock(i)
    \/ WorkerAppend(i)
    \/ WorkerCount(i)
    \/ WorkerUnlock(i)
    \/ WorkerDone(i)

Next ==
    \/ Cancel
    \/ DoRequest
    \/ CheckStatus
    \/ ReadBody
    \/ CheckEmpty
    \/ OpenZip
    \/ NewResult
    \/ LoopStep
    \/ CheckFound
    \/ Wait
    \/ CloseErrors
    \/ Drain
    \/ Return
    \/ \E i \in Workers : Worker(i)

Spec == Init /\ [][Next]_vars

\* The steps of the goroutine that runs DownloadTrades.
MainStep ==
    \/ DoRequest
    \/ CheckStatus
    \/ ReadBody
    \/ CheckEmpty
    \/ OpenZip
    \/ NewResult
    \/ LoopStep
    \/ CheckFound
    \/ Wait
    \/ CloseErrors
    \/ Drain
    \/ Return

\* The runs of archives of at most MaxFilesLive members.
InitLive == Init /\ Len(files) <= MaxFilesLive

\* The Go scheduler runs every goroutine that can take a step, and the
\* deadline of context.WithTimeout (main.go:216) and of the client's Timeout
\* (connector.go:87) passes while a call is still blocked in the download.
Fairness ==
    /\ WF_vars(MainStep)
    /\ WF_vars(Cancel)
    /\ \A i \in 1..MaxFilesLive : WF_vars(i \in Workers /\ Worker(i))

LiveSpec == InitLive /\ [][Next]_vars /\ Fairness

\* ------------------------------------------- functions called on their own
\* The calls: a function of the program and its arguments.
Calls ==
    [fn : {"parseCSVStreaming"}, arg : CsvStreams]
      \cup [fn : {"parseBool"}, arg : BoolTokens]
      \cup [fn : {"formatDate", "validateDate"}, arg : DateArgs]
      \cup [fn : {"validateSymbol"}, arg : Symbols]
      \cup [fn : {"DownloadTrades"}, arg : NameSymbols \X DateArgs]

\* A response that is never used: no call of DownloadTrades is running.
NoResponse ==
    [netErr |-> FALSE, status |-> StatusOK, bodyLen |-> 0, readErr |-> FALSE,
     zipOk |-> FALSE, stall |-> "no"]

\* No call of DownloadTrades is running.
NoDownload ==
    /\ response = NoResponse
    /\ files = <<>>
    /\ ctxDone = FALSE
    /\ pc = "request"
    /\ requests = 0
    /\ zipData = NotRead
    /\ zipOpened = FALSE
    /\ result = Nil
    /\ origin = <<>>
    /\ csvFound = FALSE
    /\ loopIdx = 1
    /\ wg = 0
    /\ mu = 0
    /\ errors = <<>>
    /\ closed = FALSE
    /\ errs = <<>>
    /\ wpc = <<>>
    /\ wtrades = <<>>
    /\ ret = NoReturn

InitCall ==
    /\ call \in Calls
    /\ returned = NotReturned
    /\ NoHandler
    /\ NoDownload

\* The called function returns v.
ReturnValue(name, v) ==
    /\ call.fn = name
    /\ ~returned.done
    /\ returned' = [done |-> TRUE, val |-> v]
    /\ UNCHANGED <<call, downloadVars, handlerVars>>

\* parseCSVStreaming(rc, 0)
CallParseCSVStreaming ==
    ReturnValue("parseCSVStreaming", parseCSVStreaming(call.arg, 0))

\* parseBool(s): the error and the value.
CallParseBool ==
    ReturnValue("parseBool",
                [ok |-> parseBoolOk(call.arg), val |-> parseBoolVal(call.arg)])

\* formatDate(year, month, day)
CallFormatDate ==
    ReturnValue("formatDate", formatDate(call.arg[1], call.arg[2], call.arg[3]))

\* validateDate(year, month, day)
CallValidateDate ==
    ReturnValue("validateDate", validateDate(call.arg[1], call.arg[2], call.arg[3]))


\* validateSymbol(symbol)
CallValidateSymbol ==
    ReturnValue("validateSymbol", validateSymbol(call.arg))

\* DownloadTrades(ctx, symbol, year, month, day) up to the request and the
\* making of the result: the address and the Date.
CallRequestNames ==
    ReturnValue("DownloadTrades",
                RequestNames(call.arg[1], call.arg[2][1], call.arg[2][2],
                             call.arg[2][3]))

NextCall ==
    \/ CallRequestNames
    \/ CallParseCSVStreaming
    \/ CallParseBool
    \/ CallFormatDate
    \/ CallValidateDate
    \/ CallValidateSymbol

CallSpec == InitCall /\ [][NextCall]_vars

\* ------------------------------------------------------ the HTTP handlers
\* strings.TrimSpace
WhiteSpace == {" ", "\t", "\n"}

RECURSIVE TrimLeft(_)
TrimLeft(s) == IF s # <<>> /\ Head(s) \in WhiteSpace THEN TrimLeft(Tail(s)) ELSE s

RECURSIVE TrimRight(_)
TrimRight(s) ==
    IF s # <<>> /\ s[Len(s)] \in WhiteSpace
    THEN TrimRight(SubSeq(s, 1, Len(s) - 1))
    ELSE s

TrimSpace(s) == TrimRight(TrimLeft(s))

\* strings.ToUpper on ASCII.
UpperSeq ==
    << "A", "B", "C", "D", "E", "F", "G", "H", "I", "J", "K", "L", "M",
       "N", "O", "P", "Q", "R", "S", "T", "U", "V", "W", "X", "Y", "Z" >>

LowerSeq ==
    << "a", "b", "c", "d", "e", "f", "g", "h", "i", "j", "k", "l", "m",
       "n", "o", "p", "q", "r", "s", "t", "u", "v", "w", "x", "y", "z" >>

ToUpper(s) ==
    [k \in 1..Len(s) |->
       IF \E n \in 1..Len(LowerSeq) : LowerSeq[n] = s[k]
       THEN UpperSeq[CHOOSE n \in 1..Len(LowerSeq) : LowerSeq[n] = s[k]]
       ELSE s[k]]

\* The requests sent to /download: the method and the query parameters
\* SYMBOL, YYYY, MM and DD.
RequestList ==
    << [method |-> "POST", SYMBOL |-> <<"A", "B", "1">>, YYYY |-> <<"2", "0", "2", "5">>, MM |-> <<"1", "2">>, DD |-> <<"2", "8">>],
       [method |-> "GET", SYMBOL |-> <<>>, YYYY |-> <<>>, MM |-> <<>>, DD |-> <<>>],
       [method |-> "GET", SYMBOL |-> <<"A", "B", "1">>, YYYY |-> <<"2", "0", "2", "5">>, MM |-> <<"1", "2">>, DD |-> <<" ">>],
       [method |-> "GET", SYMBOL |-> <<"a", "-", "b">>, YYYY |-> <<"2", "0", "2", "5">>, MM |-> <<"1", "2">>, DD |-> <<"2", "8">>],
       [method |-> "GET", SYMBOL |-> <<"A", "B", "1">>, YYYY |-> <<"2", "0", "2", "5">>, MM |-> <<"1", "3">>, DD |-> <<"2", "8">>],
       [method |-> "GET", SYMBOL |-> <<"A", "B", "1">>, YYYY |-> <<"2", "0", "2", "5">>, MM |-> <<"0", "2">>, DD |-> <<"3", "0">>],
       [method |-> "GET", SYMBOL |-> <<"A", "B", "1">>, YYYY |-> <<"2", "0", "2", "5">>, MM |-> <<"1">>, DD |-> <<"5">>],
       [method |-> "GET", SYMBOL |-> <<" ", "A", "B", "1", " ">>, YYYY |-> <<"2", "0", "2", "4">>, MM |-> <<"2">>, DD |-> <<"2", "9">>] >>

\* The servers: main.go wires requestTrackingMiddleware(downloadHandler),
\* the handlers package serves DownloadHandler.Handle.
Servers == {"main", "handlers"}

\* One to n concurrent requests; the order of the goroutines does not
\* matter, so they are listed in the order of RequestList.
RequestsUpTo(n) ==
    {r \in UNION {[1..m -> 1..Len(RequestList)] : m \in 1..n} :
        \A j, k \in 1..Len(r) : j < k => r[j] <= r[k]}

\* One request of each path through the handler: a wrong method, a
\* parameter that fails validation, and parameters that reach the connector.
ConcurrentKinds == {1, 4, 7}

Request(i) == RequestList[reqs[i]]

Handlers == DOMAIN hpc

\* APIResponse and status code before anything is written.
NoAPIResponse == [status |-> 0, success |-> FALSE]

InitHandler ==
    /\ call = NoCall
    /\ returned = NotReturned
    /\ NoDownload
    /\ server \in Servers
    /\ reqs \in RequestsUpTo(MaxRequests)
    /\ Len(reqs) > MaxRequestsAnyKind => \A i \in 1..Len(reqs) : reqs[i] \in ConcurrentKinds
    /\ hpc = [i \in 1..Len(reqs) |-> IF server = "main" THEN "mwLock" ELSE "method"]
    /\ reg = [i \in 1..Len(reqs) |-> 0]
    /\ pending = [i \in 1..Len(reqs) |-> NoAPIResponse]
    /\ resp = [i \in 1..Len(reqs) |-> NoAPIResponse]
    /\ connArgs = [i \in 1..Len(reqs) |-> <<>>]
    /\ counted = [i \in 1..Len(reqs) |-> ZeroMetrics]
    /\ metrics = ZeroMetrics
    /\ metricsMu = 0

\* Where a goroutine goes after metrics.mu.Lock() and metrics.mu.Unlock().
AfterLock ==
    [mwLock |-> "total", failLock |-> "fail", succLock |-> "succ", deferLock |-> "dec"]

AfterUnlock ==
    [mwUnlock |-> "method", failUnlock |-> "respond", succUnlock |-> "respond",
     deferUnlock |-> "done"]

\* The counter an increment or decrement statement updates, and by how much.
CounterAt ==
    [total |-> "TotalRequests", active |-> "ActiveRequests",
     fail |-> "FailedRequests", succ |-> "SuccessfulRequests",
     dec |-> "ActiveRequests"]

DeltaAt == [total |-> 1, active |-> 1, fail |-> 1, succ |-> 1, dec |-> 0 - 1]

\* The position between the read and the write of a counter.
Loaded ==
    [total |-> "totalLoaded", active |-> "activeLoaded", fail |-> "failLoaded",
     succ |-> "succLoaded", dec |-> "decLoaded"]

\* A goroutine that goes on without taking metrics.mu.
LockNotTaken(i) ==
    /\ hpc[i] \in DOMAIN AfterLock
    /\ hpc' = [hpc EXCEPT ![i] = AfterLock[hpc[i]]]
    /\ UNCHANGED <<server, reqs, reg, pending, resp, connArgs, counted, metrics,
                   metricsMu, call, returned, downloadVars>>

\* metrics.mu.Lock()
Lock(i) ==
    /\ hpc[i] \in DOMAIN AfterLock
    /\ metricsMu = 0
    /\ metricsMu' = i
    /\ hpc' = [hpc EXCEPT ![i] = AfterLock[hpc[i]]]
    /\ UNCHANGED <<server, reqs, reg, pending, resp, connArgs, counted, metrics,
                   call, returned, downloadVars>>

\* metrics.mu.Unlock()
Unlock(i) ==
    /\ hpc[i] \in DOMAIN AfterUnlock
    /\ metricsMu' = 0
    /\ hpc' = [hpc EXCEPT ![i] = AfterUnlock[hpc[i]]]
    /\ UNCHANGED <<server, reqs, reg, pending, resp, connArgs, counted, metrics,
                   call, returned, downloadVars>>

\* The read of the counter in counter++ and counter--.
Load(i) ==
    /\ hpc[i] \in DOMAIN CounterAt
    /\ reg' = [reg EXCEPT ![i] = metrics[CounterAt[hpc[i]]]]
    /\ hpc' = [hpc EXCEPT ![i] = Loaded[hpc[i]]]
    /\ UNCHANGED <<server, reqs, pending, resp, connArgs, counted, metrics,
                   metricsMu, call, returned, downloadVars>>

\* Where a goroutine goes after the statement at `at`.
AfterStore(at) ==
    CASE at = "total"  -> "active"
      [] at = "active" -> IF server = "main" THEN "mwUnlock" ELSE "params"
      [] at = "fail"   -> IF server = "main" THEN "failUnlock" ELSE "respond"
      [] at = "succ"   -> IF server = "main" THEN "succUnlock" ELSE "respond"
      [] at = "dec"    -> IF server = "main" THEN "deferUnlock" ELSE "done"

\* The write of the counter in counter++ and counter--.
Store(i) ==
    /\ \E at \in DOMAIN CounterAt : hpc[i] = Loaded[at]
    /\ LET at == CHOOSE a \in DOMAIN CounterAt : hpc[i] = Loaded[a]
       IN  /\ metrics' = [metrics EXCEPT ![CounterAt[at]] = reg[i] + DeltaAt[at]]
           /\ counted' = [counted EXCEPT ![i][CounterAt[at]] = @ + DeltaAt[at]]
           /\ hpc' = [hpc EXCEPT ![i] = AfterStore(at)]
    /\ reg' = [reg EXCEPT ![i] = 0]
    /\ UNCHANGED <<server, reqs, pending, resp, connArgs, metricsMu,
                   call, returned, downloadVars>>

\* The steps to a 4xx or 5xx answer that counts as a failed request.
Fail(i, status) ==
    /\ pending' = [pending EXCEPT ![i] = [status |-> status, success |-> FALSE]]
    /\ hpc' = [hpc EXCEPT ![i] = IF server = "main" THEN "failLock" ELSE "fail"]

\* if r.Method != http.MethodGet
CheckMethod(i) ==
    /\ hpc[i] = "method"
    /\ IF Request(i).method # "GET"
       THEN /\ pending' = [pending EXCEPT ![i] = [status |-> 405, success |-> FALSE]]
            /\ hpc' = [hpc EXCEPT ![i] = "respond"]
       ELSE /\ hpc' = [hpc EXCEPT ![i] = IF server = "main" THEN "params" ELSE "total"]
            /\ UNCHANGED pending
    /\ UNCHANGED <<server, reqs, reg, resp, connArgs, counted, metrics, metricsMu,
                   call, returned, downloadVars>>

\* The four query parameters, trimmed, and the test for an empty one.
CheckParams(i) ==
    /\ hpc[i] = "params"
    /\ IF \/ TrimSpace(Request(i).SYMBOL) = <<>>
          \/ TrimSpace(Request(i).YYYY) = <<>>
          \/ TrimSpace(Request(i).MM) = <<>>
          \/ TrimSpace(Request(i).DD) = <<>>
       THEN Fail(i, 400)
       ELSE hpc' = [hpc EXCEPT ![i] = "symbol"] /\ UNCHANGED pending
    /\ UNCHANGED <<server, reqs, reg, resp, connArgs, counted, metrics, metricsMu,
                   call, returned, downloadVars>>

\* A handler that does not validate the symbol.
CheckSymbolSkipped(i) ==
    /\ hpc[i] = "symbol"
    /\ hpc' = [hpc EXCEPT ![i] = "date"]
    /\ UNCHANGED <<server, reqs, reg, pending, resp, connArgs, counted, metrics,
                   metricsMu, call, returned, downloadVars>>

\* if err := validateSymbol(symbolRaw); err != nil
CheckSymbol(i) ==
    /\ hpc[i] = "symbol"
    /\ IF validateSymbol(TrimSpace(Request(i).SYMBOL)) # None
       THEN Fail(i, 400)
       ELSE hpc' = [hpc EXCEPT ![i] = "date"] /\ UNCHANGED pending
    /\ UNCHANGED <<server, reqs, reg, resp, connArgs, counted, metrics, metricsMu,
                   call, returned, downloadVars>>

\* if err := validateDate(year, month, day); err != nil
CheckDate(i) ==
    /\ hpc[i] = "date"
    /\ IF validateDate(TrimSpace(Request(i).YYYY), TrimSpace(Request(i).MM),
                       TrimSpace(Request(i).DD)) # None
       THEN Fail(i, 400)
       ELSE hpc' = [hpc EXCEPT ![i] = "call"] /\ UNCHANGED pending
    /\ UNCHANGED <<server, reqs, reg, resp, connArgs, counted, metrics, metricsMu,
                   call, returned, downloadVars>>

\* result, err := connector.DownloadTrades(ctx, symbol, year, month, day):
\* the call with the upper-cased symbol, and its outcome, a result or an
\* error.
CallConnector(i) ==
    /\ hpc[i] = "call"
    /\ connArgs' = [connArgs EXCEPT ![i] =
                      Append(@, << ToUpper(TrimSpace(Request(i).SYMBOL)),
                                   TrimSpace(Request(i).YYYY),
                                   TrimSpace(Request(i).MM),
                                   TrimSpace(Request(i).DD) >>)]
    /\ \E ok \in BOOLEAN :
         IF ok
         THEN /\ pending' = [pending EXCEPT ![i] = [status |-> 200, success |-> TRUE]]
              /\ hpc' = [hpc EXCEPT ![i] = IF server = "main" THEN "succLock" ELSE "succ"]
         ELSE Fail(i, 500)
    /\ UNCHANGED <<server, reqs, reg, resp, counted, metrics, metricsMu,
                   call, returned, downloadVars>>

\* writeJSONResponse and the return: the deferred decrement runs next,
\* except in Handle's answer to a wrong method, which returns before the
\* defer statement.
Respond(i) ==
    /\ hpc[i] = "respond"
    /\ resp' = [resp EXCEPT ![i] = pending[i]]
    /\ hpc' = [hpc EXCEPT ![i] =
                 IF server = "main" THEN "deferLock"
                 ELSE IF pending[i].status = 405 THEN "done" ELSE "dec"]
    /\ UNCHANGED <<server, reqs, reg, pending, connArgs, counted, metrics,
                   metricsMu, call, returned, downloadVars>>

Handler(i) ==
    \/ Lock(i)
    \/ Unlock(i)
    \/ Load(i)
    \/ Store(i)
    \/ CheckMethod(i)
    \/ CheckParams(i)
    \/ CheckSymbol(i)
    \/ CheckDate(i)
    \/ CallConnector(i)
    \/ Respond(i)

NextHandler == \E i \in Handlers : Handler(i)

HandlerSpec == InitHandler /\ [][NextHandler]_vars


\* ------------------------------------------------------ terms of the claims
RECURSIVE SumOver(_, _)
SumOver(S, f) ==
    IF S = {} THEN 0
    ELSE LET x == CHOOSE y \in S : TRUE IN f[x] + SumOver(S \ {x}, f)

\* The goroutines that were started.
Launched == {i \in Workers : wpc[i] # "idle"}

\* The goroutines that have returned and run their deferred calls.
Exited == {i \in Workers : wpc[i] = "exited"}

\* A name that ends in ".csv".
EndsInCsv(name) == Len(name) >= Len(CsvExt) /\ LastN(name, Len(CsvExt)) = CsvExt

\* The members the specification calls CSV members.
CsvMembers == {i \in Workers : ~File(i).IsDir /\ EndsInCsv(File(i).Name)}

\* The CSV members that cannot be opened or whose stream cannot be read.
FatalMembers ==
    {i \in CsvMembers : File(i).openErr \/ ParsedMember[files[i]].err}

\* DownloadTrades has returned, and it got as far as reading the archive's
\* central directory.
ReturnedAfterArchive == pc = "done" /\ result # Nil

\* The member and record a trade of the result was parsed from.
SourceRow(o) == File(o.file).rows[o.row]

\* C1: whenever the result mutex is not held, and in every result a
\* successful DownloadTrades returns, TradeCount equals the number of
\* elements of Trades.
C1_TradeCountIsLen ==
    /\ (result # Nil /\ mu = 0) => result.TradeCount = Len(result.Trades)
    /\ ret.kind = "result" => ret.result.TradeCount = Len(ret.result.Trades)

\* Three goroutines have appended, the mutex is free again and the result
\* of 10 trades was returned.
C1_Witness ==
    /\ ret.kind = "result"
    /\ mu = 0
    /\ Cardinality(Exited) = 3
    /\ ret.result.TradeCount = 10

\* C2: when every CSV member parses without a fatal error the call
\* succeeds and the returned trades are the multiset union of the trades the
\* members' goroutines produced: every trade occurs as often in the result
\* as in all the members together, and the total is the sum of the members'
\* numbers of trades.
C2_NoTradeLostOrDuplicated ==
    /\ (ReturnedAfterArchive /\ csvFound /\ FatalMembers = {}) => ret.kind = "result"
    /\ ret.kind = "result" =>
         /\ Len(ret.result.Trades) =
              SumOver(Launched, [i \in Workers |-> Len(wtrades[i])])
         /\ \A i \in Launched : \A t \in Range(wtrades[i]) :
              Count(ret.result.Trades, t) =
                SumOver(Launched, [j \in Workers |-> Count(wtrades[j], t)])
         /\ \A t \in Range(ret.result.Trades) :
              \E i \in Launched : t \in Range(wtrades[i])

\* Members of 2, 3 and 5 rows gave 10 trades.
C2_Witness ==
    /\ ret.kind = "result"
    /\ {Len(wtrades[i]) : i \in Launched} = {2, 3, 5}
    /\ Cardinality(Launched) = 3
    /\ Len(ret.result.Trades) = 10

\* C3: in a successful result the trades of one member stand in the order
\* of the member's records they were parsed from, whatever order the
\* goroutines appended in.
C3_MemberOrderPreserved ==
    ret.kind = "result" =>
      /\ Len(origin) = Len(ret.result.Trades)
      /\ \A k \in 1..Len(origin) :
           ret.result.Trades[k] = parseTradeRecord(SourceRow(origin[k]))
      /\ \A j, k \in 1..Len(origin) :
           (j < k /\ origin[j].file = origin[k].file) => origin[j].row < origin[k].row

\* A later member's goroutine appended before an earlier member's, and each
\* contributed several trades.
C3_Witness ==
    /\ ret.kind = "result"
    /\ Len(origin) >= 5
    /\ origin[1].file > origin[Len(origin)].file
    /\ origin[1].file = origin[2].file
    /\ origin[Len(origin) - 1].file = origin[Len(origin)].file

\* C4: when DownloadTrades has returned, with a result or an error, every
\* goroutine it started has finished: none is running, none holds the mutex
\* and the WaitGroup counter is zero.
C4_JoinBeforeReturn ==
    ret.kind # None =>
      /\ \A i \in Workers : wpc[i] \in {"idle", "exited"}
      /\ mu = 0
      /\ wg = 0

\* A return after three goroutines ran, one of which failed.
C4_Witness ==
    /\ ret.kind = "error"
    /\ Cardinality(Exited) = 3
    /\ Len(ret.errs) = 1

\* C5: if at least one CSV member fails fatally, DownloadTrades returns an
\* error and no result, and the error holds exactly one entry for every
\* failed member, of the kind of its failure.
C5_AllMemberErrorsReported ==
    (ReturnedAfterArchive /\ FatalMembers \cap Launched # {}) =>
      /\ ret.kind = "error"
      /\ ret.result = Nil
      /\ ret.err = "errors processing CSV files"
      /\ Len(ret.errs) = Cardinality(FatalMembers \cap Launched)
      /\ \A i \in FatalMembers \cap Launched :
           Count(ret.errs, [file |-> i,
                            kind |-> IF File(i).openErr THEN "open" ELSE "parse"]) = 1

\* Two members failed, one on Open and one in the CSV stream, and a third
\* was parsed and appended.
C5_Witness ==
    /\ ret.kind = "error"
    /\ {e.kind : e \in Range(ret.errs)} = {"open", "parse"}
    /\ result # Nil
    /\ Len(result.Trades) > 0

\* C6: for a valid archive without a CSV member, parsing fails with the
\* "no CSV files found" error, starts no goroutine and returns no result.
C6_NoCsvMember ==
    (ReturnedAfterArchive /\ CsvMembers = {}) =>
      /\ ret.kind = "error"
      /\ ret.err = "no CSV files found in the archive"
      /\ ret.result = Nil
      /\ Launched = {}
      /\ wg = 0

\* An archive of a directory and a text file was rejected.
C6_Witness ==
    /\ ret.err = "no CSV files found in the archive"
    /\ Len(files) >= 2
    /\ \E i \in Workers : File(i).IsDir
    /\ \E i \in Workers : ~File(i).IsDir


\* The range loop over zipReader.File has ended.
LoopOver == result # Nil /\ (pc # "loop" \/ loopIdx > Len(files))

\* C7: every non-directory member whose name ends in ".csv" is parsed by
\* exactly one goroutine and no other member is parsed, the member named
\* ".csv" included.
C7_EveryCsvMemberParsed ==
    LoopOver =>
      /\ Launched = CsvMembers
      /\ wg = Cardinality(Launched \ Exited)

\* C8: a body longer than the 500 MiB limit makes the download fail with a
\* size-exceeded error of its own, and its truncated bytes never reach
\* zip.NewReader.
C8_OversizeBodyRejected ==
    response.bodyLen > MaxResponseBytes =>
      /\ ~zipOpened
      /\ (pc = "done" /\ zipData # NotRead) =>
           (ret.kind = "error" /\ ret.err = "response size exceeded")

\* C9: DownloadTrades fails with an error and no result when the status is
\* not 200 (the body is then never read) and when the status is 200 but the
\* body read is empty (the archive is then never opened).
C9_BadStatusOrEmptyBodyFails ==
    /\ (pc = "done" /\ response.status # StatusOK) =>
         /\ ret.kind = "error"
         /\ ret.err \in {"failed to download file", "status code"}
         /\ ret.result = Nil
         /\ zipData = NotRead
         /\ ~zipOpened
    /\ (pc = "done" /\ zipData = 0) =>
         /\ response.status = StatusOK
         /\ ret.kind = "error"
         /\ ret.err = "downloaded file is empty"
         /\ ret.result = Nil
         /\ ~zipOpened

\* The server answered 404 and the call failed on the status.
C9_Witness ==
    /\ pc = "done"
    /\ response.status = 404
    /\ response.bodyLen > 0
    /\ ret.err = "status code"

\* The errors of the download stage and of the parse stage.
DownloadErrors ==
    {"failed to download file", "status code", "failed to read zip file",
     "downloaded file is empty"}

ParseErrors ==
    {"failed to create zip reader", "no CSV files found in the archive",
     "errors processing CSV files"}

\* The download cannot succeed on this response.
DownloadFails ==
    response.netErr \/ response.status # StatusOK \/ response.readErr
      \/ response.bodyLen = 0

\* The stages run in order: the archive is opened only on a body that was
\* read, goroutines start only on an opened archive, and a download that
\* fails ends the call before the archive is opened.
StagesInOrder ==
    /\ zipData # NotRead => requests = 1
    /\ zipOpened => zipData > 0
    /\ result # Nil => zipOpened /\ response.zipOk
    /\ Launched # {} => result # Nil
    /\ DownloadFails =>
         /\ ~zipOpened /\ Launched = {} /\ result = Nil
         /\ pc = "done" => ret.kind = "error" /\ ret.err \in DownloadErrors
    /\ (pc = "done" /\ ret.kind = "error") => ret.err \in DownloadErrors \cup ParseErrors
    /\ ret.err \in DownloadErrors => ~zipOpened /\ Launched = {} /\ result = Nil

C11_OneRequestOneOutcome ==
    [][/\ requests' <= 1
       /\ (ret'.kind = None) = (pc' # "done")
       /\ ret'.kind = "error" => ret'.result = Nil /\ ret'.err # None
       /\ ret'.kind = "result" => ret'.result # Nil /\ ret'.err = None
       /\ ret.kind # None =>
            /\ ret' = ret
            /\ requests' = requests
            /\ zipOpened' = zipOpened
            /\ wpc' = wpc]_vars

\* The request was made, the server answered 404 and the call failed
\* after that one request.
C11_Witness ==
    /\ pc = "done"
    /\ ret.kind = "error"
    /\ ret.err = "status code"
    /\ requests = 1

\* The call is in the request or in the body read.
InFlight == pc \in {"request", "status", "read"}

\* C12: when the context is cancelled or its deadline passes while the
\* request or the body read is in flight, DownloadTrades returns, and it
\* returns an error: it does not hang on a server that sends nothing, and it
\* returns no result made from the part of the body that was read.
C12_CancelledCallReturnsError ==
    (ctxDone /\ InFlight) ~> (pc = "done" /\ ret.kind = "error" /\ ret.result = Nil)

\* The server stopped sending in the body, the deadline passed and the body
\* read returned the error.
C12_Witness ==
    /\ response.stall = "body"
    /\ ctxDone
    /\ pc = "done"
    /\ ret.err = "failed to read zip file"
    /\ zipData = NotRead

\* 10 to the power n.
RECURSIVE Pow10(_)
Pow10(n) == IF n = 0 THEN 1 ELSE 10 * Pow10(n - 1)

\* The float64 v is the non-negative number num/den.
IsRatio(v, num, den) ==
    v.special = <<>> /\ ~v.neg /\ v.mant * den = num * Pow10(v.scale)

\* The values the well-formed rows of CsvRows are written from: price as
\* numerator and denominator; every row has quantity 2 and quote quantity 3.
RowValues ==
    << [row |-> Row1, id |-> 1, priceNum |-> 1,  priceDen |-> 4, time |-> 101,
        buyerMaker |-> FALSE, bestMatch |-> TRUE],
       [row |-> Row3, id |-> 3, priceNum |-> 21, priceDen |-> 2, time |-> 103,
        buyerMaker |-> TRUE, bestMatch |-> FALSE],
       [row |-> Row4, id |-> 4, priceNum |-> 1,  priceDen |-> 2, time |-> 104,
        buyerMaker |-> TRUE, bestMatch |-> FALSE] >>

WellFormedRows == {RowValues[k].row : k \in 1..Len(RowValues)}

ValuesOf(row) == RowValues[CHOOSE k \in 1..Len(RowValues) : RowValues[k].row = row]

\* The Trade t carries, field by field, the values row was written from.
CarriesValues(t, row) ==
    LET v == ValuesOf(row)
    IN  /\ t.TradeID = v.id
        /\ IsRatio(t.Price, v.priceNum, v.priceDen)
        /\ IsRatio(t.Quantity, 2, 1)
        /\ IsRatio(t.QuoteQuantity, 3, 1)
        /\ t.Timestamp = v.time
        /\ t.IsBuyerMaker = v.buyerMaker
        /\ t.IsBestMatch = v.bestMatch

\* parseCSVStreaming has returned from the stream call.arg.
ParsedStream == call.fn = "parseCSVStreaming" /\ returned.done

\* C13: for a stream made of the header and N well-formed rows of seven
\* fields parseCSVStreaming returns no error and N records, and the i-th
\* record carries the values of the i-th data row in positions 0..6.
C13_HeaderAndRowsGiveRecords ==
    (/\ ParsedStream
     /\ Len(call.arg) >= 1
     /\ call.arg[1] = HeaderRow
     /\ \A k \in 2..Len(call.arg) : call.arg[k] \in WellFormedRows)
    => /\ ~returned.val.err
       /\ Len(returned.val.trades) = Len(call.arg) - 1
       /\ \A i \in 1..Len(returned.val.trades) :
            CarriesValues(returned.val.trades[i], call.arg[i + 1])

\* The header and three different rows gave their three records.
C13_Witness ==
    /\ ParsedStream
    /\ call.arg = <<HeaderRow, Row3, Row1, Row4>>
    /\ Len(returned.val.trades) = 3
    /\ returned.val.trades[1].TradeID = 3

IsWellFormed(row) == row \in WellFormedRows

\* The well-formed data rows of the stream, in stream order.
WellFormedOf(stream) == SelectSeq(Tail(stream), IsWellFormed)

\* parseCSVStreaming returned no error and one record for each well-formed
\* data row of the stream, in stream order.
ReturnsWellFormedRows ==
    /\ ~returned.val.err
    /\ Len(returned.val.trades) = Len(WellFormedOf(call.arg))
    /\ \A i \in 1..Len(returned.val.trades) :
         CarriesValues(returned.val.trades[i], WellFormedOf(call.arg)[i])

\* C14: in a stream whose header has seven fields, a data row of fewer than
\* seven fields is dropped without failing the parse: parseCSVStreaming
\* returns no error and every well-formed row before and after it.
C14_ShortRowDropped ==
    (/\ ParsedStream
     /\ Len(call.arg) >= 1
     /\ call.arg[1] = HeaderRow
     /\ \A k \in 2..Len(call.arg) : call.arg[k] \in WellFormedRows \cup {ShortRow})
    => ReturnsWellFormedRows

\* The rows of at least seven fields in which a field does not convert.
UnconvertibleRows ==
    {row \in CsvRows : Len(row) >= FieldsPerTrade /\ row # HeaderRow
                        /\ ~parseTradeRecordOk(row)}

\* C15: a row of at least seven fields in which one of the fields 0..6
\* does not convert gives no record and no error: parseCSVStreaming succeeds
\* and returns the rows around it in order.
C15_UnconvertibleRowDropped ==
    (/\ ParsedStream
     /\ Len(call.arg) >= 1
     /\ call.arg[1] = HeaderRow
     /\ \A k \in 2..Len(call.arg) : call.arg[k] \in WellFormedRows \cup UnconvertibleRows)
    => ReturnsWellFormedRows

\* C16: parseBool accepts every spelling in upper-case and lower-case
\* letters of true, false, t and f (tRuE too) and the digits 1 and 0, with
\* the value the word names; every other token is an error.
C16_BoolAnyCase ==
    (call.fn = "parseBool" /\ returned.done) =>
      LET word == ToLower(call.arg)
      IN  /\ returned.val.ok =
               (word \in { <<"t", "r", "u", "e">>, <<"f", "a", "l", "s", "e">>,
                           <<"t">>, <<"f">>, <<"1">>, <<"0">> })
          /\ returned.val.ok =>
               (returned.val.val = (word \in {<<"t", "r", "u", "e">>, <<"t">>, <<"1">>}))

\* A string of the form YYYY-MM-DD: ten characters, digits and two hyphens.
IsYYYYMMDD(s) ==
    /\ Len(s) = 10
    /\ \A k \in 1..10 : IF k \in {5, 8} THEN s[k] = "-" ELSE s[k] \in Digits

\* C17: for every (year, month, day) validateDate accepts, formatDate
\* returns the year unchanged and month and day as two characters, padded
\* with a zero, so that Date is the ten-character YYYY-MM-DD; a component of
\* two characters is returned unchanged.
C17_FormatDatePads ==
    (call.fn = "formatDate" /\ returned.done) =>
      LET year  == call.arg[1]
          month == call.arg[2]
          day   == call.arg[3]
          r     == returned.val
      IN  /\ validateDate(year, month, day) = None =>
                /\ r[1] = year
                /\ Len(r[2]) = 2 /\ AllDigits(r[2]) /\ DecValue(r[2]) = Atoi(month)
                /\ Len(r[3]) = 2 /\ AllDigits(r[3]) /\ DecValue(r[3]) = Atoi(day)
                /\ Len(month) = 1 => r[2] = <<"0">> \o month
                /\ Len(day) = 1 => r[3] = <<"0">> \o day
                /\ IsYYYYMMDD(DateString(r[1], r[2], r[3]))
          /\ Len(month) = 2 => r[2] = month
          /\ Len(day) = 2 => r[3] = day

\* 2025, 1, 5 is accepted and formatted as 2025, 01, 05.
C17_Witness ==
    /\ call.fn = "formatDate"
    /\ returned.done
    /\ call.arg = <<<<"2", "0", "2", "5">>, <<"1">>, <<"5">>>>
    /\ validateDate(call.arg[1], call.arg[2], call.arg[3]) = None
    /\ returned.val = <<<<"2", "0", "2", "5">>, <<"0", "1">>, <<"0", "5">>>>

\* A parameter written out with a zero before a single character.
ZeroPadded(s) == IF Len(s) < 2 THEN <<"0">> \o s ELSE s

\* The days of a month of the Gregorian calendar.
DaysOfMonth(month, year) ==
    IF month \in {4, 6, 9, 11} THEN 30
    ELSE IF month # 2 THEN 31
    ELSE IF year % 400 = 0 \/ (year % 4 = 0 /\ year % 100 # 0) THEN 29
    ELSE 28

\* The string YYYY-MM-DD names a day of the calendar.
IsCalendarDate(s) ==
    /\ IsYYYYMMDD(s)
    /\ LET month == DecValue(SubSeq(s, 6, 7))
           day   == DecValue(SubSeq(s, 9, 10))
       IN  /\ month \in 1..12
           /\ day \in 1..DaysOfMonth(month, DecValue(SubSeq(s, 1, 4)))

\* C19: validateDate returns no error exactly when the year parses to an
\* integer in 2000..2100, the month to one in 1..12, the day to one in 1..31
\* and the zero-padded year-month-day is a real calendar date; 30 February
\* and 29 February of a year that is no leap year are rejected.
C19_ValidateDateExact ==
    (call.fn = "validateDate" /\ returned.done) =>
      LET year  == call.arg[1]
          month == call.arg[2]
          day   == call.arg[3]
      IN  /\ (returned.val = None) =
               (/\ AtoiOk(year) /\ Atoi(year) \in 2000..2100
                /\ AtoiOk(month) /\ Atoi(month) \in 1..12
                /\ AtoiOk(day) /\ Atoi(day) \in 1..31
                /\ IsCalendarDate(year \o <<"-">> \o ZeroPadded(month)
                                    \o <<"-">> \o ZeroPadded(day)))
          /\ (AtoiOk(month) /\ Atoi(month) = 2 /\ AtoiOk(day) /\ Atoi(day) = 30)
               => returned.val # None
          /\ (/\ AtoiOk(year) /\ Atoi(year) % 4 # 0
              /\ AtoiOk(month) /\ Atoi(month) = 2
              /\ AtoiOk(day) /\ Atoi(day) = 29)
               => returned.val # None

\* 29 February 2025 passed the three range checks and was rejected as a
\* date.
C19_Witness ==
    /\ call.fn = "validateDate"
    /\ returned.done
    /\ call.arg = <<<<"2", "0", "2", "5">>, <<"2">>, <<"2", "9">>>>
    /\ returned.val = "invalid date"

\* C20: validateSymbol returns no error exactly when the symbol is not
\* empty and every character of it is one of A-Z and 0-9; the empty symbol
\* and symbols with a lower-case letter, a space or punctuation are rejected.
C20_ValidateSymbolExact ==
    (call.fn = "validateSymbol" /\ returned.done) =>
      /\ (returned.val = None) =
           (/\ Len(call.arg) > 0
            /\ \A k \in 1..Len(call.arg) : call.arg[k] \in UpperLetters \cup Digits)
      /\ (call.arg = <<>> \/ \E k \in 1..Len(call.arg) : call.arg[k] \in {"b", " ", "-"})
           => returned.val # None

\* A symbol of letters and a digit is accepted.
C20_Witness ==
    /\ call.fn = "validateSymbol"
    /\ returned.done
    /\ call.arg = <<"A", "9", "Z">>
    /\ returned.val = None

\* The members of the archive f a goroutine is started for.
SelectedIn(f) == {i \in 1..Len(f) : IsSelected(MemberList[f[i]])}

\* The selected members of f that cannot be opened or read.
FatalIn(f) ==
    {i \in SelectedIn(f) : MemberList[f[i]].openErr \/ ParsedMember[f[i]].err}

\* The error DownloadTrades returns for the archive f, None for a result.
OutcomeOf(f) ==
    IF SelectedIn(f) = {} THEN "no CSV files found in the archive"
    ELSE IF FatalIn(f) # {} THEN "errors processing CSV files"
    ELSE None

\* The trades of the result that came from member i, in result order.
BlockOf(i) ==
    LET at == SelectSeq([k \in 1..Len(origin) |-> k],
                        LAMBDA k : origin[k].file = i)
    IN  [n \in 1..Len(at) |-> ret.result.Trades[at[n]]]

\* C18: two runs of the parser on the same archive have, under every
\* interleaving of the goroutines, the same outcome kind, the same total
\* count and the same records for each member: the outcome, the number of
\* member errors, the count and each member's records are functions of the
\* archive alone; only the order of the members' records in the result is
\* left to the schedule.
C18_OutcomeFunctionOfArchive ==
    ReturnedAfterArchive =>
      /\ ret.err = OutcomeOf(files)
      /\ (ret.kind = "result") = (OutcomeOf(files) = None)
      /\ Len(ret.errs) = Cardinality(FatalIn(files))
      /\ ret.kind = "result" =>
           /\ ret.result.TradeCount =
                SumOver(SelectedIn(files),
                        [i \in 1..Len(files) |-> Len(ParsedMember[files[i]].trades)])
           /\ Len(origin) = Len(ret.result.Trades)
           /\ \A i \in 1..Len(files) :
                BlockOf(i) = IF i \in SelectedIn(files)
                             THEN ParsedMember[files[i]].trades
                             ELSE <<>>

\* The archive of a.csv, b.csv and e.csv gave its result with the records
\* of the last member first and those of the first member last.
C18_Witness ==
    /\ ret.kind = "result"
    /\ files = <<2, 4, 8>>
    /\ origin[1].file = 3
    /\ origin[Len(origin)].file = 1
    /\ ret.result.TradeCount = 10

\* The request of goroutine i is a GET whose four parameters, as the
\* handler reads them, are not empty and pass validateSymbol and
\* validateDate.
WellFormedRequest(i) ==
    LET r == Request(i)
    IN  /\ r.method = "GET"
        /\ \A p \in {r.SYMBOL, r.YYYY, r.MM, r.DD} : TrimSpace(p) # <<>>
        /\ validateSymbol(TrimSpace(r.SYMBOL)) = None
        /\ validateDate(TrimSpace(r.YYYY), TrimSpace(r.MM), TrimSpace(r.DD)) = None

\* The response of goroutine i has been written.
Answered(i) == resp[i] # NoAPIResponse

\* C21: the handler calls the connector only for a GET request whose four
\* parameters are not empty and whose symbol and date pass validateSymbol
\* and validateDate, and then once; a request of another method is answered
\* 405 and a request with a missing or invalid parameter 400, both with
\* success false and without a call of the connector.
C21_ConnectorOnlyForValidRequests ==
    \A i \in Handlers :
        /\ connArgs[i] # <<>> => WellFormedRequest(i) /\ Len(connArgs[i]) = 1
        /\ (Answered(i) /\ WellFormedRequest(i)) => Len(connArgs[i]) = 1
        /\ (Answered(i) /\ Request(i).method # "GET") =>
             resp[i] = [status |-> 405, success |-> FALSE] /\ connArgs[i] = <<>>
        /\ (Answered(i) /\ Request(i).method = "GET" /\ ~WellFormedRequest(i)) =>
             resp[i] = [status |-> 400, success |-> FALSE] /\ connArgs[i] = <<>>

\* One request was answered 400 without a call of the connector, another
\* was passed to the connector and answered 200.
C21_Witness ==
    \E i, j \in Handlers :
        /\ resp[i] = [status |-> 400, success |-> FALSE]
        /\ connArgs[i] = <<>>
        /\ Len(connArgs[j]) = 1
        /\ resp[j] = [status |-> 200, success |-> TRUE]

\* C22: after N concurrent GET requests served by DownloadHandler.Handle
\* have all completed, TotalRequests is N, SuccessfulRequests plus
\* FailedRequests is N and ActiveRequests is 0, whatever the interleaving.
C22_HandleCountersExact ==
    ( /\ server = "handlers"
      /\ \A i \in Handlers : Request(i).method = "GET" /\ hpc[i] = "done" )
    => /\ metrics.TotalRequests = Len(reqs)
       /\ metrics.SuccessfulRequests + metrics.FailedRequests = Len(reqs)
       /\ metrics.ActiveRequests = 0

\* The positions of a request of main.go that is in flight: it has run
\* metrics.ActiveRequests++ and not yet the deferred ActiveRequests--.
InFlightPositions ==
    {"mwUnlock", "method", "params", "symbol", "date", "call",
     "succLock", "succ", "succLoaded", "succUnlock",
     "failLock", "fail", "failLoaded", "failUnlock",
     "respond", "deferLock", "dec", "decLoaded"}

RequestsInFlight == {i \in Handlers : hpc[i] \in InFlightPositions}

\* What the first n requests together added to a counter.
RECURSIVE CountedUpTo(_, _)
CountedUpTo(counter, n) ==
    IF n = 0 THEN 0 ELSE counted[n][counter] + CountedUpTo(counter, n - 1)

\* C29: for requests through requestTrackingMiddleware(downloadHandler),
\* 0 <= ActiveRequests <= TotalRequests, SuccessfulRequests plus
\* FailedRequests is at most TotalRequests, ActiveRequests is the number of
\* requests in flight, and every request adds to at most one of
\* SuccessfulRequests and FailedRequests, and at most 1, which the counters
\* keep.
C29_MiddlewareCountersConsistent ==
    server = "main" =>
        /\ 0 <= metrics.ActiveRequests
        /\ metrics.ActiveRequests <= metrics.TotalRequests
        /\ metrics.SuccessfulRequests + metrics.FailedRequests
             <= metrics.TotalRequests
        /\ metrics.ActiveRequests = Cardinality(RequestsInFlight)
        /\ \A i \in Handlers :
             /\ counted[i].SuccessfulRequests \in {0, 1}
             /\ counted[i].FailedRequests \in {0, 1}
             /\ counted[i].SuccessfulRequests + counted[i].FailedRequests <= 1
             /\ (hpc[i] = "done" /\ Request(i).method = "GET") =>
                  counted[i].SuccessfulRequests + counted[i].FailedRequests = 1
        /\ metrics.SuccessfulRequests
             = CountedUpTo("SuccessfulRequests", Len(reqs))
        /\ metrics.FailedRequests = CountedUpTo("FailedRequests", Len(reqs))

\* Of two requests to main.go one has completed as successful while the
\* other is still in flight.
C29_Witness ==
    /\ server = "main"
    /\ Len(reqs) = 2
    /\ metrics.TotalRequests = 2
    /\ metrics.ActiveRequests = 1
    /\ \E i \in Handlers : hpc[i] = "done" /\ counted[i].SuccessfulRequests = 1

\* The numbers a sequence of record numbers holds.
Numbers(s) == {s[k] : k \in 1..Len(s)}

\* The first field of the record is one of the two header names or text
\* strconv.ParseFloat does not take for a number.
FirstFieldIsHeaderText(record) ==
    \/ record[1] = <<"T", "r", "a", "d", "e", "I", "d">>
    \/ record[1] = <<"t", "r", "a", "d", "e", "_", "i", "d">>
    \/ ~ParseFloatOk(record[1])

\* C23: parseCSVStreaming passes over no record but the first as the
\* header, and over the first exactly when its first field is "TradeId" or
\* "trade_id" or is not numeric; every later record is handled as a data
\* row, also when its first field is header text: it gives a record when it
\* has seven fields that convert, and is dropped otherwise.
C23_OnlyFirstRowIsHeader ==
    ParsedStream =>
        LET rows == call.arg
            st   == returned.val
        IN  /\ Numbers(st.skipped) \subseteq {1}
            /\ Len(st.skipped) <= 1
            /\ Len(rows) >= 1 =>
                 (1 \in Numbers(st.skipped) <=> FirstFieldIsHeaderText(rows[1]))
            /\ ~st.err =>
                 \A k \in 2..Len(rows) :
                    k \in Numbers(st.idx) <=>
                       (Len(rows[k]) >= FieldsPerTrade /\ parseTradeRecordOk(rows[k]))

\* A stream that begins with a header whose first field is neither of the
\* two names and goes on with a row of header text and a data row: the
\* first record was passed over as the header, the second was not, and the
\* third gave the one record.
C23_Witness ==
    /\ ParsedStream
    /\ call.arg = <<HeaderRowId, HeaderRow, Row3>>
    /\ returned.val.skipped = <<1>>
    /\ returned.val.idx = <<3>>

\* parseCSVStreaming without the header test on the first record.
RECURSIVE parseLoopNoHeaderCheck(_, _, _, _)
parseLoopNoHeaderCheck(rows, k, maxTrades, st) ==
    IF k > Len(rows) THEN st
    ELSE IF csvFieldCountError(rows, k)
    THEN [st EXCEPT !.err = TRUE, !.trades = <<>>, !.idx = <<>>]
    ELSE IF maxTrades > 0 /\ Len(st.trades) >= maxTrades
    THEN st
    ELSE IF Len(rows[k]) < FieldsPerTrade \/ ~parseTradeRecordOk(rows[k])
    THEN parseLoopNoHeaderCheck(rows, k + 1, maxTrades, st)
    ELSE parseLoopNoHeaderCheck(rows, k + 1, maxTrades,
                   [st EXCEPT !.trades = Append(@, parseTradeRecord(rows[k])),
                              !.idx = Append(@, k)])

parseCSVStreamingNoHeaderCheck(rows, maxTrades) ==
    parseLoopNoHeaderCheck(rows, 1, maxTrades,
                           [err |-> FALSE, trades |-> <<>>, idx |-> <<>>])

\* C30: parseCSVStreaming returns the error and the records, in order and
\* from the same rows, that the parser without the header test returns:
\* the header test never removes a row that would have given a record.
C30_HeaderCheckRemovesNoRecord ==
    ParsedStream =>
        LET other == parseCSVStreamingNoHeaderCheck(call.arg, 0)
        IN  /\ returned.val.err = other.err
            /\ returned.val.trades = other.trades
            /\ returned.val.idx = other.idx

\* A first record of header text followed by trade fields was passed over
\* as the header, and the data row after it gave the one record.
C30_Witness ==
    /\ ParsedStream
    /\ call.arg = <<TradeIdDataRow, Row3>>
    /\ returned.val.skipped = <<1>>
    /\ Len(returned.val.trades) = 1
    /\ returned.val.trades[1].TradeID = 3

\* The positions of a goroutine between mu.Lock() and mu.Unlock().
AppendSection == {"append", "count", "unlock"}

InAppendSection == {i \in Workers : wpc[i] \in AppendSection}

\* C24: at most one goroutine at a time is inside the append section, and
\* a goroutine holds the mutex exactly while it is there: for the append
\* and the update of the count, never while it opens or parses its member
\* or sends its error.
C24_AppendSectionExclusive ==
    /\ Cardinality(InAppendSection) <= 1
    /\ \A i \in Workers : mu = i <=> wpc[i] \in AppendSection
    /\ mu # 0 => mu \in Workers

\* One goroutine is in the append section while a second waits for the
\* mutex and a third is still parsing.
C24_Witness ==
    \E i, j, k \in Workers :
        /\ wpc[i] = "count" /\ mu = i
        /\ wpc[j] = "lock"
        /\ wpc[k] = "parse"

\* The errors goroutine i has sent, in the channel or already collected.
ErrorsSentBy(i) ==
    Len(SelectSeq(errors \o errs, LAMBDA e : e.file = i))

\* The records goroutine i has appended, in the order of the result.
AppendedBy(i) == SelectSeq(origin, LAMBDA o : o.file = i)

\* Goroutine i sent one error, appended nothing and never came to the
\* append.
SentOneErrorOnly(i) ==
    /\ ErrorsSentBy(i) = 1
    /\ AppendedBy(i) = <<>>
    /\ wpc[i] \in {"deferred", "exited"}
    /\ wtrades[i] = <<>>

\* Goroutine i sent no error and appended every record of its member once.
AppendedAllOnly(i) ==
    /\ ErrorsSentBy(i) = 0
    /\ AppendedBy(i) = TradeOrigins(i)
    /\ Len(wtrades[i]) = Len(TradeOrigins(i))

\* C27: every goroutine does one of two things and not both: it sends
\* one error and appends nothing, or it appends all the records of its
\* member once and sends no error.  Until it has done either it has sent
\* nothing and appended nothing.
C27_ErrorOrAppendNeverBoth ==
    \A i \in Workers :
        /\ ErrorsSentBy(i) <= 1
        /\ ErrorsSentBy(i) = 0 \/ AppendedBy(i) = <<>>
        /\ AppendedBy(i) \in {<<>>, TradeOrigins(i)}
        /\ wpc[i] = "exited" => (SentOneErrorOnly(i) \/ AppendedAllOnly(i))
        /\ wpc[i] = "exited" => ~(SentOneErrorOnly(i) /\ AppendedAllOnly(i))

\* After the return one goroutine has sent its error and appended nothing
\* and another has appended its three records and sent no error.
C27_Witness ==
    /\ pc = "done"
    /\ \E i, j \in Exited :
         /\ SentOneErrorOnly(i)
         /\ AppendedAllOnly(j)
         /\ Len(AppendedBy(j)) = 3

\* C28: in a successful result the records of one member stand next to
\* each other: between two records of a member there is no record of
\* another member.
C28_MemberBlocksContiguous ==
    ret.kind = "result" =>
      /\ Len(origin) = Len(ret.result.Trades)
      /\ \A k \in 1..Len(origin) :
           ret.result.Trades[k] = parseTradeRecord(SourceRow(origin[k]))
      /\ \A j, l \in 1..Len(origin) :
           (j < l /\ origin[j].file = origin[l].file) =>
              \A k \in j..l : origin[k].file = origin[j].file

\* Three members gave three blocks, the last member's block first.
C28_Witness ==
    /\ ret.kind = "result"
    /\ Cardinality({origin[k].file : k \in 1..Len(origin)}) = 3
    /\ Len(origin) >= 6
    /\ origin[1].file = 3
    /\ origin[2].file = 3

\* The goroutines that are at the send of their error.
Sending == {i \in Workers : wpc[i] \in {"sendOpenErr", "sendParseErr"}}

\* Every goroutine has sent at most one error, the channel has room for one
\* error of every goroutine launched, and a goroutine at its send finds room.
FanInNeverFull ==
    /\ \A i \in Workers : ErrorsSentBy(i) <= 1
    /\ Cardinality(Launched) <= ErrorsCap
    /\ Len(errors) <= ErrorsCap
    /\ Sending # {} => Len(errors) < ErrorsCap

\* C26: the fan-in does not deadlock: every goroutine sends at most one
\* error, the capacity of the channel is at least the number of goroutines
\* launched, so no goroutine blocks on its send; and under fair scheduling
\* wg.Wait() completes and DownloadTrades returns, also when every member
\* fails.
C26_FanInTerminates ==
    /\ []FanInNeverFull
    /\ (pc = "wait") ~> (pc = "done" /\ ret.kind # None /\ wg = 0)

\* Both members of an archive failed, one at the open and one in the
\* parse, and DownloadTrades returned the two errors.
C26_Witness ==
    /\ pc = "done"
    /\ ret.kind = "error"
    /\ Cardinality(Launched) = 2
    /\ Launched \subseteq Exited
    /\ Len(ret.errs) = 2
    /\ {ret.errs[k].kind : k \in 1..Len(ret.errs)} = {"open", "parse"}

\* DownloadTrades has made the address and the Date for call.arg.
NamesMade == call.fn = "DownloadTrades" /\ returned.done

\* The name of the file the address asks for: what follows the last "/" of
\* the address after the prefix and the symbol's directory.
RequestedFileName ==
    LET url == returned.val.url
        dir == Len(URLPrefix) + Len(call.arg[1]) + 1
    IN  SubSeq(url, dir + 1, Len(url))

\* A component with a zero before it when it is a single character.
PaddedIfSingle(s) == IF Len(s) = 1 THEN <<"0">> \o s ELSE s

\* C25: for every year, month and day the address of the archive and the
\* Date of the result are made from the same zero-padded components: the
\* requested file name is the symbol, "-trades-", the Date and ".zip", and
\* the Date is the year, the month and the day, each of the latter two with
\* a zero before a single character, joined by "-".
C25_DateMatchesFileName ==
    NamesMade =>
      LET symbol == call.arg[1]
          year   == call.arg[2][1]
          month  == call.arg[2][2]
          day    == call.arg[2][3]
          Date   == returned.val.Date
      IN  /\ RequestedFileName
               = symbol \o <<"-", "t", "r", "a", "d", "e", "s", "-">> \o Date
                   \o <<".", "z", "i", "p">>
          /\ Date = year \o <<"-">> \o PaddedIfSingle(month) \o <<"-">>
                     \o PaddedIfSingle(day)
          /\ validateDate(year, month, day) = None => IsYYYYMMDD(Date)

\* For 2025, 1, 5 the Date is 2025-01-05 and the address ends in
\* AZ9-trades-2025-01-05.zip.
C25_Witness ==
    /\ NamesMade
    /\ call.arg = << <<"A", "Z", "9">>, <<<<"2", "0", "2", "5">>, <<"1">>, <<"5">>>> >>
    /\ returned.val.Date = <<"2", "0", "2", "5", "-", "0", "1", "-", "0", "5">>
    /\ LastN(returned.val.url, 14) =
         <<"2", "0", "2", "5", "-", "0", "1", "-", "0", "5", ".", "z", "i", "p">>

====
